---- MODULE Spec2Model ----
(***************************************************************************)
(* FastFlow / nexus: the chat answer loop (generate -> execute tools ->    *)
(* review) of nexus/agents/chat.py with its tool-use policy, the graph     *)
(* mutation engine of nexus/core/graph_ops.py with the validator of        *)
(* nexus/core/validators.py, and the builder flow of                       *)
(* nexus/services/agent_service.py.                                        *)
(*                                                                         *)
(* Texts are sequences of tokens.  The reasoning markers "<think>" and     *)
(* "</think>" are single tokens; " " and "\n" are the whitespace tokens.   *)
(***************************************************************************)
EXTENDS Naturals, Integers, Sequences, FiniteSets, TLC

VARIABLES
    node,        \* position of the LangGraph run / of achat
    context,     \* ChatRequestContext of the request
    messages,    \* ChatState.messages
    review_guidance,                 \* ChatState.review_guidance
    force_tool_call,                 \* ChatState.force_tool_call
    pending_answer_requires_review,  \* ChatState.pending_answer_requires_review
    sufficiency_review_action,       \* ChatState.sufficiency_review_action
    sufficiency_review_count,        \* ChatState.sufficiency_review_count
    review_result,   \* raw verdict of the latest review invocation
    review_calls,    \* number of invocations of the review node in this run
    step_count,      \* number of graph nodes executed in this run
    achat,           \* local frame of ChatAgent.achat, with the emitted events
    store,           \* memory.store[session_id].messages
    llm_messages,    \* the messages sent to the model by the latest generate round
    gpc,             \* apply_operations: "init", "loop", "done"
    heap,            \* NodeInstance objects by reference
    graph,           \* the input LogicalGraph: node references and edges
    graph_before,    \* the input graph as the caller saw it before the call
    operations,      \* the operation batch
    op_index,        \* index of the next operation of the batch
    nodes,           \* working index: node id -> node reference
    edges,           \* working index: set of edge 4-tuples
    errors,          \* collected OperationError codes
    applied_ops,     \* number of operations applied
    bpc,             \* handle_builder_request: the node of the flow to run next
    berror,          \* BuilderFlowState.error
    plan,            \* BuilderFlowState.plan["operations"]
    sse,             \* the events handle_builder_request has put on its queue
    llm_cache,       \* LLM_RUNTIME_CACHE: configuration id -> runtime object, 0 when absent
    llm_objects,     \* the LLMRuntime objects, by reference
    lpc,             \* per request: the get_llm call it makes next
    lreq,            \* per request: configuration id, calls made, runtime read, llm returned
    session_store,   \* memory.store[session_id].messages shared by concurrent requests
    hpc,             \* per concurrent request: its position in achat
    hreq,            \* per concurrent request: prompt, messages read, answer parts
    session_context_cache,  \* _SESSION_CONTEXT_CACHE[session_id]
    wpc,             \* the position of the current request of the session
    wreq,            \* the current request of the session and what its tools read
    wlog,            \* the earlier requests of the session, oldest first
    fn_pc,           \* the function applied to drawn arguments, and whether it has returned
    fn_args,         \* the arguments of the call
    fn_result        \* the value returned

chatVars == <<node, context, messages, review_guidance, force_tool_call,
              pending_answer_requires_review, sufficiency_review_action,
              sufficiency_review_count, review_result, review_calls,
              step_count, achat, store, llm_messages>>
graphVars == <<gpc, heap, graph, graph_before, operations, op_index, nodes, edges, errors,
               applied_ops>>
builderVars == <<bpc, berror, plan, sse>>
llmVars == <<llm_cache, llm_objects, lpc, lreq>>
historyVars == <<session_store, hpc, hreq>>
workflowVars == <<session_context_cache, wpc, wreq, wlog>>
fnVars == <<fn_pc, fn_args, fn_result>>
sharedVars == <<llmVars, historyVars, workflowVars, fnVars>>
vars == <<chatVars, graphVars, builderVars, sharedVars>>

(***************************************************************************)
(* Text helpers (Python str operations on token sequences).                *)
(***************************************************************************)
OPEN == "<think>"
CLOSE == "</think>"

IsSpace(c) == c \in {" ", "\n"}

RECURSIVE lstrip(_)
lstrip(t) == IF t # <<>> /\ IsSpace(Head(t)) THEN lstrip(Tail(t)) ELSE t

RECURSIVE rstrip(_)
rstrip(t) ==
    IF t # <<>> /\ IsSpace(t[Len(t)]) THEN rstrip(SubSeq(t, 1, Len(t) - 1)) ELSE t

strip(t) == rstrip(lstrip(t))

startswith(t, p) == Len(p) <= Len(t) /\ SubSeq(t, 1, Len(p)) = p

\* index of the first occurrence of token c at a position >= from, 0 if none
find(t, c, from) ==
    IF \E i \in from..Len(t) : t[i] = c
    THEN CHOOSE i \in from..Len(t) : t[i] = c /\ \A j \in from..(i - 1) : t[j] # c
    ELSE 0

RECURSIVE Join(_)
Join(parts) == IF parts = <<>> THEN <<>> ELSE Head(parts) \o Join(Tail(parts))

RECURSIVE JoinLines(_)
JoinLines(parts) ==
    IF parts = <<>> THEN <<>>
    ELSE IF Len(parts) = 1 THEN Head(parts)
    ELSE Head(parts) \o <<"\n">> \o JoinLines(Tail(parts))

RemoveToken(t, cs) == SelectSeq(t, LAMBDA c : c \notin cs)

\* re.findall(r"<think>([\s\S]*?)</think>", text): the wrapped spans, in order
RECURSIVE think_spans(_)
think_spans(t) ==
    LET i == find(t, OPEN, 1)
        j == IF i = 0 THEN 0 ELSE find(t, CLOSE, i + 1)
    IN IF i = 0 \/ j = 0 THEN <<>>
       ELSE <<SubSeq(t, i + 1, j - 1)>> \o think_spans(SubSeq(t, j + 1, Len(t)))

\* re.sub(r"<think>[\s\S]*?</think>", "", text)
RECURSIVE remove_think_spans(_)
remove_think_spans(t) ==
    LET i == find(t, OPEN, 1)
        j == IF i = 0 THEN 0 ELSE find(t, CLOSE, i + 1)
    IN IF i = 0 \/ j = 0 THEN t
       ELSE SubSeq(t, 1, i - 1) \o remove_think_spans(SubSeq(t, j + 1, Len(t)))

RECURSIVE StripEach(_)
StripEach(parts) ==
    IF parts = <<>> THEN <<>>
    ELSE LET p == strip(Head(parts))
         IN (IF p = <<>> THEN <<>> ELSE <<p>>) \o StripEach(Tail(parts))

\* LiteLLMAdapter._parse_think_wrapped_content: <<answer, reasoning>>
_parse_think_wrapped_content(text) ==
    LET hasOpen == find(text, OPEN, 1) # 0
        hasClose == find(text, CLOSE, 1) # 0
        reasoning_parts == StripEach(think_spans(text))
    IN IF ~hasOpen /\ ~hasClose THEN <<text, <<>>>>
       ELSE IF reasoning_parts = <<>> /\ hasClose /\ ~hasOpen
       THEN LET k == find(text, CLOSE, 1)
            IN <<strip(SubSeq(text, k + 1, Len(text))), strip(SubSeq(text, 1, k - 1))>>
       ELSE IF reasoning_parts = <<>> /\ hasOpen /\ ~hasClose
       THEN LET k == find(text, OPEN, 1)
            IN <<strip(SubSeq(text, 1, k - 1)), strip(SubSeq(text, k + 1, Len(text)))>>
       ELSE <<strip(RemoveToken(remove_think_spans(text), {OPEN, CLOSE})),
              JoinLines(reasoning_parts)>>

\* LiteLLMAdapter.split_response_content with no out-of-band reasoning field
split_response_content(content) == _parse_think_wrapped_content(content)

(***************************************************************************)
(* Messages (langchain BaseMessage values).                                *)
(***************************************************************************)
Msg(type, content, tool_calls, pending, id, name) ==
    [type |-> type, content |-> content, tool_calls |-> tool_calls,
     pending |-> pending, id |-> id, name |-> name]

SystemMessage(content, id) == Msg("system", content, <<>>, FALSE, id, "")
HumanMessage(content, id) == Msg("human", content, <<>>, FALSE, id, "")
\* pending is additional_kwargs[REVIEW_PENDING_ANSWER_FLAG]
AIMessage(content, tool_calls, pending, id) == Msg("ai", content, tool_calls, pending, id, "")
ToolMessage(content, name, id) == Msg("tool", content, <<>>, FALSE, id, name)

\* langgraph add_messages reducer: a message whose id exists replaces the
\* message of that id in place, any other message is appended
RECURSIVE add_messages(_, _)
add_messages(left, right) ==
    IF right = <<>> THEN left
    ELSE LET m == Head(right)
             merged == IF \E i \in 1..Len(left) : left[i].id = m.id
                       THEN [i \in 1..Len(left) |-> IF left[i].id = m.id THEN m ELSE left[i]]
                       ELSE Append(left, m)
         IN add_messages(merged, Tail(right))

\* ChatAgent._is_review_pending_answer_message
_is_review_pending_answer_message(m) ==
    m.type = "ai" /\ m.tool_calls = <<>> /\ m.pending

(***************************************************************************)
(* Tool-use policy (nexus/core/policies/tool_use_policy.py).               *)
(* Chinese keywords are written in pinyin.  `k in text` is matched on the  *)
(* words of the text, a keyword also matching the words that contain it.   *)
(***************************************************************************)
MAX_TOOL_CALLS_PER_QUESTION == 3
NO_NEW_EVIDENCE_STOP_STREAK == 2
MAX_ANSWER_SUFFICIENCY_REVIEW_ROUNDS == 3

WORKFLOW_GRAPH_CONTEXT_KEYWORDS ==
    {"dangqian_gongzuoliu", "zhege_gongzuoliu", "liuchengtu", "bianpaitu",
     "jiedian", "lianxian", "bian", "tuopu", "node", "nodes", "edge", "edges",
     "workflow", "graph", "mcp", "mcp_gongju", "toolset"}

\* the tools of _build_app, in registration order
TOOLS == <<"get_workflow_node_info", "get_current_time">>

TOOL_KEYWORDS ==
    [t \in {"get_workflow_node_info", "get_current_time"} |->
        IF t = "get_workflow_node_info"
        THEN {"jiedian_xiangqing", "jiedian_xinxi", "mouge_jiedian", "node"}
        ELSE {"dangqian_shijian", "xianzai_shijian", "jidian", "riqi", "shijian",
              "format", "geshi", "shiqu", "timezone"}]

TOOL_DESCRIPTION ==
    [t \in {"get_workflow_node_info", "get_current_time"} |->
        IF t = "get_workflow_node_info"
        THEN {"gongzuoliu", "jiedian", "mingcheng"}
        ELSE {"shijian", "geshi"}]

FALLBACK_TOKENS ==
    {"gongzuoliu", "jiedian", "gongju", "mcp", "miaoshu", "mingcheng", "lianxian"}

\* Python `k in text` for a keyword k and a text of words
Contains(text, k) ==
    \E i \in 1..Len(text) :
        \/ text[i] = k
        \/ <<k, text[i]>> \in {<<"node", "nodes">>, <<"edge", "edges">>,
                               <<"mcp", "mcp_gongju">>, <<"bian", "bianpaitu">>}

_normalize_text(text) == strip(text)

\* get_tool_message_count
get_tool_message_count(msgs) ==
    Cardinality({i \in 1..Len(msgs) : msgs[i].type = "tool"})

ToolMessagesOf(msgs) == SelectSeq(msgs, LAMBDA m : m.type = "tool")

\* collect_tool_call_signatures: names of the tool calls of all AI messages
collect_tool_call_signatures(msgs) ==
    UNION {{msgs[i].tool_calls[j] : j \in 1..Len(msgs[i].tool_calls)} :
              i \in {k \in 1..Len(msgs) : msgs[k].type = "ai"}} \ {""}

\* _no_new_evidence_streak over the tool messages, in order
RECURSIVE StreakFrom(_, _, _)
StreakFrom(tms, seen_evidence, streak) ==
    IF tms = <<>> THEN streak
    ELSE LET normalized_content == strip(Head(tms).content)
         IN IF normalized_content = <<>> \/ normalized_content \in seen_evidence
            THEN StreakFrom(Tail(tms), seen_evidence, streak + 1)
            ELSE StreakFrom(Tail(tms), seen_evidence \cup {normalized_content}, 0)

\* new evidence does not reset the count
_no_new_evidence_streak_NoReset(msgs) ==
    LET tms == ToolMessagesOf(msgs)
    IN Cardinality({i \in 1..Len(tms) :
          \/ strip(tms[i].content) = <<>>
          \/ \E j \in 1..(i - 1) : strip(tms[j].content) = strip(tms[i].content)})
_no_new_evidence_streak(msgs) == StreakFrom(ToolMessagesOf(msgs), {}, 0)

\* requires_workflow_graph_tools
requires_workflow_graph_tools(user_prompt) ==
    LET prompt == _normalize_text(user_prompt)
    IN prompt # <<>> /\ \E k \in WORKFLOW_GRAPH_CONTEXT_KEYWORDS : Contains(prompt, k)

\* _score_tool_relevance
_score_tool_relevance(tool, query_text) ==
    IF query_text = <<>> THEN 0
    ELSE (IF Contains(query_text, tool) THEN 10 ELSE 0)
         + 3 * Cardinality({k \in TOOL_KEYWORDS[tool] : Contains(query_text, k)})
         + Cardinality({f \in FALLBACK_TOKENS :
                           Contains(query_text, f) /\ f \in TOOL_DESCRIPTION[tool]})

\* the tools are filtered in registration order, without ranking
select_tool_candidates_Unranked(ctx, msgs, tools, focus_text) ==
    IF tools = <<>> THEN <<>>
    ELSE LET called_signatures == collect_tool_call_signatures(msgs)
             filtered_tools == SelectSeq(tools, LAMBDA t : t \notin called_signatures)
         IN IF filtered_tools # <<>> THEN filtered_tools ELSE tools
\* select_tool_candidates: rank by (-score, registration index), drop the
\* tools already requested by a tool call, fall back to the full ranking
select_tool_candidates(ctx, msgs, tools, focus_text) ==
    IF tools = <<>> THEN <<>>
    ELSE LET query_text == _normalize_text(ctx.user_prompt \o <<" ">> \o focus_text)
             Before(i, j) ==
                 LET si == _score_tool_relevance(tools[i], query_text)
                     sj == _score_tool_relevance(tools[j], query_text)
                 IN si > sj \/ (si = sj /\ i < j)
             order == SortSeq([i \in 1..Len(tools) |-> i], Before)
             candidate_tools == [k \in 1..Len(tools) |-> tools[order[k]]]
             called_signatures == collect_tool_call_signatures(msgs)
             filtered_tools == SelectSeq(candidate_tools, LAMBDA t : t \notin called_signatures)
         IN IF filtered_tools # <<>> THEN filtered_tools ELSE candidate_tools

\* the candidates are bound as select_tool_candidates returned them
_filter_unused_tools_Keeps(msgs, tools) == tools
\* ChatAgent._filter_unused_tools: drop the tools named by a tool message
_filter_unused_tools(msgs, tools) ==
    LET used_tool_names == {msgs[i].name : i \in {k \in 1..Len(msgs) : msgs[k].type = "tool"}} \ {""}
    IN SelectSeq(tools, LAMBDA t : t \notin used_tool_names)

\* the keyword rule is applied before the rule for existing tool results
resolve_tool_choice_KeywordFirst(ctx, msgs) ==
    IF get_tool_message_count(msgs) >= MAX_TOOL_CALLS_PER_QUESTION THEN "none"
    ELSE IF _no_new_evidence_streak(msgs) >= NO_NEW_EVIDENCE_STOP_STREAK THEN "none"
    ELSE IF requires_workflow_graph_tools(ctx.user_prompt) THEN "required"
    ELSE "auto"
\* resolve_tool_choice
resolve_tool_choice(ctx, msgs) ==
    IF get_tool_message_count(msgs) >= MAX_TOOL_CALLS_PER_QUESTION THEN "none"
    ELSE IF _no_new_evidence_streak(msgs) >= NO_NEW_EVIDENCE_STOP_STREAK THEN "none"
    ELSE IF \E i \in 1..Len(msgs) : msgs[i].type = "tool" THEN "auto"
    ELSE IF requires_workflow_graph_tools(ctx.user_prompt) THEN "required"
    ELSE "auto"

\* LiteLLMAdapter.normalize_tool_choice_for_model
normalize_tool_choice_for_model(enable_thinking, tool_choice) ==
    IF ~enable_thinking THEN tool_choice
    ELSE IF tool_choice = "required" THEN "auto"
    ELSE tool_choice

(***************************************************************************)
(* Prompt texts of nexus/core/prompts/chat_message.py.                     *)
(***************************************************************************)
\* build_review_guidance_message
build_review_guidance_message(missing_info, suggested_tool_name) ==
    <<"fill_evidence_first">>
    \o (IF missing_info # <<>> THEN <<"\n", "missing:">> \o missing_info ELSE <<>>)
    \o (IF suggested_tool_name # "" THEN <<"\n", "try_tool:", suggested_tool_name>> ELSE <<>>)

\* build_need_user_input_message
build_need_user_input_message(missing_info, user_guidance) ==
    IF user_guidance # <<>> THEN user_guidance
    ELSE <<"no_reliable_conclusion", "missing:">>
         \o (IF missing_info # <<>> THEN missing_info ELSE <<"key_context">>)
         \o <<"please_supply">>

(***************************************************************************)
(* Bounds and input sets of the chat run.                                  *)
(***************************************************************************)
MaxCallsPerMessage == 2   \* tool calls one assistant message may carry
MaxSteps == 13            \* cap on the graph nodes executed in one run

\* user prompts: one without and one with a workflow-context keyword
Prompts == {<<"what", "time">>, <<"which", "nodes">>}

\* raw text the model streams for a message without tool calls
AnswerTexts == {<<"a", " ">>, <<OPEN, "r", CLOSE, "b">>}
\* raw text the model streams next to tool calls
ToolCallTexts == {<<>>, <<"a">>}
\* tool results: empty or evidence
ToolResults == {<<>>, <<"x">>}

\* session history before the request: one earlier exchange
Histories == {<<[type |-> "human", content |-> <<"q">>],
                [type |-> "ai", content |-> <<"a">>]>>}

NoReview == [status |-> "none", missing_info |-> <<>>,
             suggested_tool_name |-> "", user_guidance |-> <<>>]

\* what the reviewer call can produce; status "error" is a raised or
\* unparsable result
ReviewResults ==
    {[status |-> "error", missing_info |-> <<>>, suggested_tool_name |-> "",
      user_guidance |-> <<>>],
     [status |-> "sufficient", missing_info |-> <<>>, suggested_tool_name |-> "",
      user_guidance |-> <<>>],
     [status |-> "need_user_input", missing_info |-> <<"m">>,
      suggested_tool_name |-> "", user_guidance |-> <<>>],
     [status |-> "need_user_input", missing_info |-> <<>>,
      suggested_tool_name |-> "", user_guidance |-> <<"ask">>]}
    \cup [status : {"need_more_tools"}, missing_info : {<<"m">>},
          suggested_tool_name : {"get_workflow_node_info"},
          user_guidance : {<<>>}]

ToolNames(tools) == {tools[i] : i \in 1..Len(tools)}

\* the tool calls of one assistant message: one tool called up to
\* MaxCallsPerMessage times, or every bound tool called once
CallLists(bound_tools) ==
    {[i \in 1..n |-> t] : n \in 1..MaxCallsPerMessage, t \in ToolNames(bound_tools)}
    \cup (IF Len(bound_tools) \in 2..MaxCallsPerMessage THEN {bound_tools} ELSE {})

\* _bind_model_with_tools: what the bound model can stream.  Tool calls name
\* bound tools only; none are made without bound tools or under "none"; under
\* "required" every output carries one.
ModelOutputs(bound_tools, tool_choice) ==
    LET textOnly == [content : AnswerTexts, tool_calls : {<<>>}]
        withCalls == {o \in [content : ToolCallTexts, tool_calls : CallLists(bound_tools)] :
                         o.content = <<>> \/ Len(o.tool_calls) = 1}
    IN IF bound_tools = <<>> \/ tool_choice = "none" THEN textOnly
       ELSE IF tool_choice = "required" THEN withCalls
       ELSE textOnly \cup withCalls

(***************************************************************************)
(* Events (nexus/core/event/execution_events.py) and the consumer side of  *)
(* ChatAgent.achat.  thinking.* events are not part of the frame.          *)
(***************************************************************************)
PHASE_ANALYZE_QUESTION == "analyze_question"
PHASE_EXECUTE_TOOLS == "execute_tools"
PHASE_REVIEW_ANSWER == "review_answer"
PHASE_GENERATE_FINAL_ANSWER == "generate_final_answer"

Event(type, content, phase, tool) ==
    [type |-> type, content |-> content, phase |-> phase, tool |-> tool]

Emit(f, evs) == [f EXCEPT !.events = @ \o evs]

\* the pair of events is built without comparing the phases
transition_to_Always(f, next_phase) ==
    [Emit(f, <<Event("phase.completed", <<>>, f.current_phase, ""),
               Event("phase.started", <<>>, next_phase, "")>>)
       EXCEPT !.current_phase = next_phase]

\* PhaseTracker.transition_to
transition_to(f, next_phase) ==
    IF next_phase = f.current_phase THEN f
    ELSE [Emit(f, <<Event("phase.completed", <<>>, f.current_phase, ""),
                    Event("phase.started", <<>>, next_phase, "")>>)
            EXCEPT !.current_phase = next_phase]

\* is_tool_execution_failed
is_tool_execution_failed(m) ==
    LET content == strip(m.content)
    IN content # <<>> /\ Head(content) = "Error:"

\* achat, custom event "token"
OnToken(f, delta) ==
    IF delta = <<>> THEN f
    ELSE LET g == transition_to(f, PHASE_GENERATE_FINAL_ANSWER)
         IN [Emit(g, <<Event("answer.delta", delta, "", "")>>)
               EXCEPT !.answer_parts = Append(@, delta),
                      !.last_emitted = @ \o delta]

\* the event is emitted but the collected parts are kept
OnAnswerReset_KeepsParts(f) == Emit(f, <<Event("answer.reset", <<>>, "", "")>>)
\* achat, custom event "answer_reset"
OnAnswerReset(f) ==
    [Emit(f, <<Event("answer.reset", <<>>, "", "")>>)
       EXCEPT !.answer_parts = <<>>, !.last_emitted = <<>>]

RECURSIVE OnToolCalls(_, _)
OnToolCalls(f, calls) ==
    IF calls = <<>> THEN f
    ELSE LET tool_name == Head(calls)
         IN IF tool_name = "" THEN OnToolCalls(f, Tail(calls))
            ELSE OnToolCalls(
                   Emit(transition_to(f, PHASE_EXECUTE_TOOLS),
                        <<Event("tool.selected", <<>>, "", tool_name),
                          Event("tool.started", <<>>, "", tool_name)>>),
                   Tail(calls))

\* achat, the loop over the messages a "values" event adds
RECURSIVE OnNewMessages(_, _)
OnNewMessages(f, new_messages) ==
    IF new_messages = <<>> THEN f
    ELSE LET m == Head(new_messages)
             g == IF m.type = "ai" /\ m.tool_calls # <<>> THEN OnToolCalls(f, m.tool_calls)
                  ELSE IF m.type = "tool" /\ m.name # ""
                  THEN Emit(f, <<Event(IF is_tool_execution_failed(m)
                                       THEN "tool.failed" ELSE "tool.completed",
                                       m.content, "", m.name)>>)
                  ELSE f
         IN OnNewMessages(g, Tail(new_messages))

\* achat, the handling of the last message of a "values" event
OnLastMessage(f, last_message) ==
    IF last_message.type # "ai" \/ last_message.tool_calls # <<>> THEN f
    ELSE IF _is_review_pending_answer_message(last_message)
    THEN IF f.review_started_emitted THEN f
         ELSE [Emit(transition_to(f, PHASE_REVIEW_ANSWER),
                    <<Event("review.started", <<>>, "", "")>>)
                 EXCEPT !.review_started_emitted = TRUE]
    ELSE LET content == last_message.content
             delta == IF f.last_emitted # <<>> /\ startswith(content, f.last_emitted)
                      THEN SubSeq(content, Len(f.last_emitted) + 1, Len(content))
                      ELSE content
         IN IF content = <<>> \/ delta = <<>> THEN f
            ELSE [Emit(transition_to(f, PHASE_GENERATE_FINAL_ANSWER),
                       <<Event("answer.delta", delta, "", "")>>)
                    EXCEPT !.answer_parts = Append(@, delta),
                           !.last_emitted = content]

\* achat, one "values" event
OnValues(f, msgs) ==
    LET g == IF Len(msgs) > f.last_processed_message_count
             THEN [OnNewMessages(f, SubSeq(msgs, f.last_processed_message_count + 1, Len(msgs)))
                     EXCEPT !.last_processed_message_count = Len(msgs)]
             ELSE f
    IN IF msgs = <<>> THEN f ELSE OnLastMessage(g, msgs[Len(msgs)])

\* the exception is logged and the stream is only closed
OnException_Silent(f) == Emit(f, <<Event("[DONE]", <<>>, "", "")>>)

\* AgentService.handle_chat_request: an exception of achat becomes an error
\* event; the stream always ends with the [DONE] marker
OnException(f) ==
    Emit(f, <<Event("error", <<>>, "", ""), Event("[DONE]", <<>>, "", "")>>)

(***************************************************************************)
(* The chat run: ChatAgent.achat driving the graph of ChatAgent._build_app *)
(***************************************************************************)
NODE_GENERATE == "generate_response_with_tool_context"
NODE_EXECUTE_TOOLS == "execute_model_requested_tools"
NODE_REVIEW == "review_answer_sufficiency"

\* route_after_generation
\* the tool calls of the last message are not looked at
route_after_generation_FlagOnly(msgs, pending) ==
    IF pending THEN NODE_REVIEW ELSE "__end__"
route_after_generation(msgs, pending) ==
    LET last_message == msgs[Len(msgs)]
    IN IF last_message.type = "ai" /\ last_message.tool_calls # <<>> THEN NODE_EXECUTE_TOOLS
       ELSE IF pending THEN NODE_REVIEW
       ELSE "__end__"

\* route_after_review
\* every action but answer returns to the generate node
route_after_review_UnlessAnswer(action) ==
    IF action # "answer" THEN NODE_GENERATE ELSE "__end__"
route_after_review(action) ==
    IF action = "call_tool" THEN NODE_GENERATE ELSE "__end__"

\* the candidate tools of a round: select_tool_candidates, then _filter_unused_tools
CandidateTools(ctx, msgs, focus_text) ==
    _filter_unused_tools(msgs, select_tool_candidates(ctx, msgs, TOOLS, focus_text))

\* force_tool_call is not consulted
GenerateToolChoice_Unforced(ctx, msgs, force) ==
    LET tool_choice == resolve_tool_choice(ctx, msgs)
    IN IF get_tool_message_count(msgs) >= MAX_TOOL_CALLS_PER_QUESTION
       THEN "none" ELSE tool_choice
\* the review guidance is sent to the model but never stored
llm_input_Bare(msgs, guidance) == msgs

\* the model input of _run_llm_answer: the messages of the state and, for
\* this round only, the review guidance as a system message
llm_input(msgs, guidance) ==
    IF strip(guidance) # <<>>
    THEN msgs \o <<SystemMessage(strip(guidance), 0)>>
    ELSE msgs

\* the tool_choice _run_llm_answer computes
GenerateToolChoice(ctx, msgs, force) ==
    LET tool_choice == resolve_tool_choice(ctx, msgs)
        budgeted == IF get_tool_message_count(msgs) >= MAX_TOOL_CALLS_PER_QUESTION
                    THEN "none" ELSE tool_choice
    IN IF force /\ budgeted # "none" THEN "required" ELSE budgeted

\* the review gate of _run_llm_answer
should_review_generated_answer(ctx, msgs) ==
    \/ requires_workflow_graph_tools(ctx.user_prompt)
    \/ \E i \in 1..Len(msgs) : msgs[i].type = "tool"

RECURSIVE WithIds(_, _)
WithIds(hist, first_id) ==
    IF hist = <<>> THEN <<>>
    ELSE <<Msg(Head(hist).type, Head(hist).content, <<>>, FALSE, first_id, "")>>
         \o WithIds(Tail(hist), first_id + 1)

InitialFrame ==
    [answer_parts |-> <<>>, last_emitted |-> <<>>,
     last_processed_message_count |-> 0, review_started_emitted |-> FALSE,
     current_phase |-> PHASE_ANALYZE_QUESTION, events |-> <<>>]

ChatInit ==
    /\ node = "init"
    /\ context \in [user_prompt : Prompts, model_config_id : {0, 1, 2},
                    enable_thinking : BOOLEAN, history0 : Histories]
    /\ context.model_config_id # 1 => context.user_prompt = <<"what", "time">>
    /\ context.enable_thinking =>
         context.model_config_id = 1 /\ context.user_prompt = <<"which", "nodes">>
    /\ store = context.history0
    /\ messages = <<>>
    /\ review_guidance = <<>>
    /\ force_tool_call = FALSE
    /\ pending_answer_requires_review = FALSE
    /\ sufficiency_review_action = "answer"
    /\ sufficiency_review_count = 0
    /\ review_result = NoReview
    /\ review_calls = 0
    /\ step_count = 0
    /\ achat = InitialFrame
    /\ llm_messages = <<>>

\* achat up to the first stream event.  _build_app raises without a model
\* configuration id (0).
StartRun ==
    /\ node = "init"
    /\ IF context.model_config_id = 0
       THEN /\ node' = "failed"
            /\ achat' = OnException(achat)
            /\ UNCHANGED messages
       ELSE LET state_messages ==
                    <<SystemMessage(<<"CHAT_SYSTEM_PROMPT">>, 1)>>
                    \o WithIds(store, 2)
                    \o <<HumanMessage(context.user_prompt, Len(store) + 2)>>
                started == Emit(achat, <<Event("run.started", <<>>, "", ""),
                                         Event("phase.started", <<>>, PHASE_ANALYZE_QUESTION, "")>>)
            IN /\ messages' = state_messages
               /\ achat' = OnValues(started, state_messages)
               /\ node' = NODE_GENERATE
    /\ UNCHANGED <<context, review_guidance, force_tool_call,
                   pending_answer_requires_review, sufficiency_review_action,
                   sufficiency_review_count, review_result, review_calls,
                   step_count, store, llm_messages>>
    /\ UNCHANGED graphVars
    /\ UNCHANGED builderVars
    /\ UNCHANGED sharedVars

\* the length is taken of the joined parts before they are stripped
Complete_RawLength(f) ==
    LET final_answer == strip(Join(f.answer_parts))
    IN Emit(f, <<Event("phase.completed", <<>>, f.current_phase, ""),
                 Event("answer.done", final_answer, "", ""),
                 Event("run.completed", <<Len(Join(f.answer_parts))>>, "", ""),
                 Event("[DONE]", <<>>, "", "")>>)

\* the end of achat, reached without suspension once the graph has ended:
\* the closing events, then the [DONE] marker of handle_chat_request
Complete(f) ==
    LET final_answer == strip(Join(f.answer_parts))
    IN Emit(f, <<Event("phase.completed", <<>>, f.current_phase, ""),
                 Event("answer.done", final_answer, "", ""),
                 Event("run.completed", <<Len(final_answer)>>, "", ""),
                 Event("[DONE]", <<>>, "", "")>>)

\* achat writes the session history only after the stream loop has ended
CommitsHistory_EveryStep(next) == TRUE
CommitsHistory(next) == next = "__end__"

\* the end of achat: the commit to the session history
Committed(st, ctx, f) ==
    LET final_answer == strip(Join(f.answer_parts))
    IN st \o <<[type |-> "human", content |-> ctx.user_prompt]>>
          \o (IF final_answer # <<>>
              THEN <<[type |-> "ai", content |-> final_answer]>> ELSE <<>>)

\* _run_llm_answer with the stream events it causes in achat, and the end of
\* achat when the run ends here
Generate ==
    /\ node = NODE_GENERATE
    /\ step_count < MaxSteps
    /\ context.model_config_id = 1
    /\ \E candidate_tools \in {CandidateTools(context, messages, review_guidance)},
          tool_choice \in {GenerateToolChoice(context, messages, force_tool_call)} :
       \E out \in ModelOutputs(candidate_tools,
                      normalize_tool_choice_for_model(context.enable_thinking, tool_choice)) :
       \E answer_content \in {split_response_content(out.content)[1]},
          pending_review \in {out.tool_calls = <<>>
                                /\ should_review_generated_answer(context, messages)} :
       \E new_messages \in {add_messages(messages,
                                <<AIMessage(answer_content, out.tool_calls,
                                            pending_review, Len(messages) + 1)>>)} :
       \E next \in {route_after_generation(new_messages, pending_review)},
          streamed \in {OnValues(OnToken(achat, out.content), new_messages)} :
               /\ achat' = IF next = "__end__" THEN Complete(streamed) ELSE streamed
               /\ messages' = new_messages
               /\ pending_answer_requires_review' = pending_review
               /\ store' = IF CommitsHistory(next) THEN Committed(store, context, streamed)
                           ELSE store
               /\ node' = IF next = "__end__" THEN "done" ELSE next
    /\ llm_messages' = llm_input(messages, review_guidance)
    /\ review_guidance' = <<>>
    /\ force_tool_call' = FALSE
    /\ review_result' = NoReview
    /\ step_count' = step_count + 1
    /\ UNCHANGED <<context, sufficiency_review_action, sufficiency_review_count,
                   review_calls>>
    /\ UNCHANGED graphVars
    /\ UNCHANGED builderVars
    /\ UNCHANGED sharedVars

\* get_llm or the model stream raises inside _run_llm_answer (always so when
\* the model configuration cannot be resolved, id 2); text streamed before
\* the exception has already been delivered
GenerateRaises ==
    /\ node = NODE_GENERATE
    /\ step_count < MaxSteps
    /\ \E partial \in IF context.model_config_id = 1 THEN {<<"a">>} ELSE {<<>>} :
         achat' = OnException(OnToken(achat, partial))
    /\ node' = "failed"
    /\ llm_messages' = IF context.model_config_id = 1
                       THEN llm_input(messages, review_guidance) ELSE llm_messages
    /\ step_count' = step_count + 1
    /\ UNCHANGED <<context, messages, review_guidance, force_tool_call,
                   pending_answer_requires_review, sufficiency_review_action,
                   sufficiency_review_count, review_result, review_calls, store>>
    /\ UNCHANGED graphVars
    /\ UNCHANGED builderVars
    /\ UNCHANGED sharedVars

RECURSIVE ToolMessagesFor(_, _, _)
ToolMessagesFor(calls, result, first_id) ==
    IF calls = <<>> THEN <<>>
    ELSE <<ToolMessage(result, Head(calls), first_id)>>
         \o ToolMessagesFor(Tail(calls), result, first_id + 1)

\* ToolNode(tools): one tool message per requested call, in request order; the
\* calls of one round return the same result
ExecuteTools ==
    /\ node = NODE_EXECUTE_TOOLS
    /\ step_count < MaxSteps
    /\ \E calls \in {messages[Len(messages)].tool_calls}, result \in ToolResults :
       \E new_messages \in {add_messages(messages,
                                ToolMessagesFor(calls, result, Len(messages) + 1))} :
            /\ messages' = new_messages
            /\ achat' = OnValues(achat, new_messages)
    /\ node' = NODE_GENERATE
    /\ step_count' = step_count + 1
    /\ UNCHANGED <<context, review_guidance, force_tool_call,
                   pending_answer_requires_review, sufficiency_review_action,
                   sufficiency_review_count, review_result, review_calls, store,
                   llm_messages>>
    /\ UNCHANGED graphVars
    /\ UNCHANGED builderVars
    /\ UNCHANGED sharedVars

\* a tool raises and the exception leaves the tool node
ExecuteToolsRaises ==
    /\ node = NODE_EXECUTE_TOOLS
    /\ step_count < MaxSteps
    /\ node' = "failed"
    /\ achat' = OnException(achat)
    /\ step_count' = step_count + 1
    /\ UNCHANGED <<context, messages, review_guidance, force_tool_call,
                   pending_answer_requires_review, sufficiency_review_action,
                   sufficiency_review_count, review_result, review_calls, store,
                   llm_messages>>
    /\ UNCHANGED graphVars
    /\ UNCHANGED builderVars
    /\ UNCHANGED sharedVars

review_result_model_FailOpen(raw) ==
    IF raw.status = "error"
    THEN [status |-> "sufficient", missing_info |-> <<>>,
          suggested_tool_name |-> "", user_guidance |-> <<>>]
    ELSE raw

\* the try/except around the reviewer call: a raised or unparsable result
\* becomes need_user_input with empty guidance
review_result_model(raw) ==
    IF raw.status = "error"
    THEN [status |-> "need_user_input", missing_info |-> <<>>,
          suggested_tool_name |-> "", user_guidance |-> <<>>]
    ELSE raw

EffectiveReview_AnySuggestion(model, remaining_tool_call_count, candidate_tools) ==
    LET s1 == IF model.status = "need_more_tools" /\ remaining_tool_call_count <= 0
              THEN "need_user_input" ELSE model.status
        s2 == IF s1 = "need_more_tools" /\ candidate_tools = <<>>
              THEN "need_user_input" ELSE s1
    IN <<s2, model.user_guidance>>

\* the deterministic post-processing of the verdict: <<status, user_guidance>>
EffectiveReview(model, remaining_tool_call_count, candidate_tools) ==
    LET s1 == IF model.status = "need_more_tools" /\ remaining_tool_call_count <= 0
              THEN "need_user_input" ELSE model.status
        s2 == IF s1 = "need_more_tools" /\ candidate_tools = <<>>
              THEN "need_user_input" ELSE s1
        notCandidate == s2 = "need_more_tools"
                        /\ model.suggested_tool_name \notin ToolNames(candidate_tools)
    IN <<IF notCandidate THEN "need_user_input" ELSE s2,
         IF notCandidate /\ strip(model.user_guidance) = <<>>
         THEN build_need_user_input_message(<<>>, <<>>) ELSE model.user_guidance>>

\* the pending candidate the review step looks at: the last pending message
PendingAnswerIndex(msgs) ==
    IF \E i \in 1..Len(msgs) : _is_review_pending_answer_message(msgs[i])
    THEN CHOOSE i \in 1..Len(msgs) :
            /\ _is_review_pending_answer_message(msgs[i])
            /\ \A j \in (i + 1)..Len(msgs) : ~_is_review_pending_answer_message(msgs[j])
    ELSE 0

\* the state update _run_review_answer_sufficiency returns for a raw verdict
ReviewUpdate(raw) ==
    LET review_count == sufficiency_review_count
        pending_answer == messages[PendingAnswerIndex(messages)]
        model == review_result_model(raw)
        candidate_tools == CandidateTools(context, messages, review_guidance)
        used_tool_calls == get_tool_message_count(messages)
        remaining_tool_calls ==
            IF MAX_TOOL_CALLS_PER_QUESTION > used_tool_calls
            THEN MAX_TOOL_CALLS_PER_QUESTION - used_tool_calls ELSE 0
        effective == EffectiveReview(model, remaining_tool_calls, candidate_tools)
        review_status == effective[1]
    IN IF review_status = "sufficient"
       THEN [new |-> <<AIMessage(pending_answer.content, <<>>, FALSE, pending_answer.id)>>,
             action |-> "answer", count |-> review_count + 1,
             guidance |-> <<>>, force |-> FALSE, reset |-> FALSE]
       ELSE IF review_status = "need_more_tools"
       THEN [new |-> <<>>, action |-> "call_tool", count |-> review_count + 1,
             guidance |-> build_review_guidance_message(model.missing_info,
                                                        model.suggested_tool_name),
             force |-> TRUE, reset |-> TRUE]
       ELSE [new |-> <<AIMessage(build_need_user_input_message(model.missing_info, effective[2]),
                                 <<>>, FALSE, Len(messages) + 1)>>,
             action |-> "ask_user", count |-> review_count + 1,
             guidance |-> <<>>, force |-> FALSE, reset |-> TRUE]

\* the update when the review ceiling is reached: the reviewer is not called
CeilingUpdate ==
    [new |-> <<AIMessage(build_need_user_input_message(<<>>, <<>>), <<>>, FALSE,
                         Len(messages) + 1)>>,
     action |-> "ask_user", count |-> sufficiency_review_count,
     guidance |-> <<>>, force |-> FALSE, reset |-> TRUE]

\* the update when there is nothing to review
NothingToReview ==
    [new |-> <<>>, action |-> "answer", count |-> sufficiency_review_count,
     guidance |-> review_guidance, force |-> force_tool_call, reset |-> FALSE]

ReviewCeilingReached_Late(review_count) ==
    review_count > MAX_ANSWER_SUFFICIENCY_REVIEW_ROUNDS
ReviewCeilingReached_Never(review_count) == FALSE
ReviewCeilingReached(review_count) ==
    review_count >= MAX_ANSWER_SUFFICIENCY_REVIEW_ROUNDS

\* _run_review_answer_sufficiency with the stream events it causes in achat,
\* and the end of achat when the run ends here
Review ==
    /\ node = NODE_REVIEW
    /\ step_count < MaxSteps
    /\ \E raw \in ReviewResults :
       \E consulted \in {/\ ~ReviewCeilingReached(sufficiency_review_count)
                          /\ pending_answer_requires_review
                          /\ PendingAnswerIndex(messages) # 0} :
       \E u \in {IF ReviewCeilingReached(sufficiency_review_count) THEN CeilingUpdate
                  ELSE IF ~consulted THEN NothingToReview
                  ELSE ReviewUpdate(raw)} :
       \E new_messages \in {add_messages(messages, u.new)} :
       \E next \in {route_after_review(u.action)},
          streamed \in {OnValues(IF u.reset THEN OnAnswerReset(achat) ELSE achat,
                                 new_messages)} :
            /\ consulted \/ raw = CHOOSE r \in ReviewResults : TRUE
            /\ review_result' = IF consulted THEN raw ELSE NoReview
            /\ messages' = new_messages
            /\ sufficiency_review_action' = u.action
            /\ sufficiency_review_count' = u.count
            /\ review_guidance' = u.guidance
            /\ force_tool_call' = u.force
            /\ achat' = IF next = "__end__" THEN Complete(streamed) ELSE streamed
            /\ store' = IF CommitsHistory(next) THEN Committed(store, context, streamed)
                        ELSE store
            /\ node' = IF next = "__end__" THEN "done" ELSE next
    /\ pending_answer_requires_review' = FALSE
    /\ review_calls' = review_calls + 1
    /\ step_count' = step_count + 1
    /\ UNCHANGED <<context, llm_messages>>
    /\ UNCHANGED graphVars
    /\ UNCHANGED builderVars
    /\ UNCHANGED sharedVars

ChatNext ==
    \/ StartRun
    \/ Generate
    \/ GenerateRaises
    \/ ExecuteTools
    \/ ExecuteToolsRaises
    \/ Review

(***************************************************************************)
(* Graph mutation engine: apply_operations of nexus/core/graph_ops.py.     *)
(* NodeInstance objects live in `heap` and are held by reference, so that  *)
(* the input graph and the working index can share an object.  None is     *)
(* written "None".                                                         *)
(***************************************************************************)
MaxOps == 3    \* operations in one batch

None == "None"

\* a node with its data payload: io_lists says that data.inputs and
\* data.outputs are both lists; inputs is data.inputs when it is a list
NodeInstance(id, type, inputs) ==
    [id |-> id, type |-> type, inputs |-> inputs, io_lists |-> TRUE]
Input(key, value) == [key |-> key, value |-> value]
Edge(source, target, source_handle, target_handle) ==
    <<source, target, source_handle, target_handle>>

Operation(op_type, target_id, params) ==
    [op_type |-> op_type, target_id |-> target_id, params |-> params]

NoParams == [id |-> None, type |-> "", inputs |-> <<>>, source |-> "", target |-> "",
             source_handle |-> None, target_handle |-> None]

\* validated Operation values (Operation.validate_params): ADD_NODE has a str
\* type, ADD_EDGE / REMOVE_EDGE have str source and target, REMOVE_NODE and
\* UPDATE_INPUTS name a node; a str may be empty
AddNodeOps ==
    {Operation("ADD_NODE", None, [NoParams EXCEPT !.id = a[1], !.type = a[2], !.inputs = a[3]]) :
        a \in {<<None, "code", <<Input("a", 0)>>>>, <<"n1", "code", <<>>>>,
               <<"n1", "tool", <<Input("a", 0)>>>>, <<"n2", "", <<Input("a", 0)>>>>}}
RemoveNodeOps ==
    {Operation("REMOVE_NODE", t, NoParams) : t \in {"n1", "guide", "zz"}}
EdgeParams ==
    {[NoParams EXCEPT !.source = e[1], !.target = e[2], !.source_handle = e[3]] :
        e \in {<<"start", "guide", None>>, <<"guide", "n1", None>>,
               <<"guide", "n1", "h">>, <<"", "n1", None>>}}
AddEdgeOps == {Operation("ADD_EDGE", None, p) : p \in EdgeParams}
RemoveEdgeOps == {Operation("REMOVE_EDGE", None, p) : p \in EdgeParams}
UpdateInputsOps ==
    {Operation("UPDATE_INPUTS", "n1", [NoParams EXCEPT !.inputs = u]) :
        u \in {<<>>, <<Input("a", 2)>>, <<Input("b", 2)>>,
               <<Input("a", 2), Input("b", 3)>>, <<Input("b", 2), Input("c", 3)>>}}
    \cup {Operation("UPDATE_INPUTS", "zz", [NoParams EXCEPT !.inputs = <<Input("a", 2)>>])}
AutoHealOps == {Operation("AUTO_HEAL", None, NoParams)}

\* input graphs: the two system nodes, optionally a code node with one input,
\* and any subset of two edges
InputNodeLists ==
    {<<NodeInstance("start", "workflowStart", <<>>), NodeInstance("guide", "userGuide", <<>>)>>,
     <<NodeInstance("start", "workflowStart", <<>>), NodeInstance("guide", "userGuide", <<>>),
       NodeInstance("n1", "code", <<Input("a", 1)>>)>>}
InputEdgeLists ==
    {<<>>, <<Edge("start", "guide", None, None)>>,
     <<Edge("start", "guide", None, None), Edge("guide", "n1", None, None)>>}

\* LogicalGraph validates no uniqueness and no reference: a graph with a
\* repeated node id, a node without list-typed inputs, a repeated edge and an
\* edge to a node that does not exist
MalformedGraph ==
    [nodes |-> <<NodeInstance("start", "workflowStart", <<>>),
                 NodeInstance("guide", "userGuide", <<>>),
                 [NodeInstance("guide", "code", <<>>) EXCEPT !.io_lists = FALSE]>>,
     edges |-> <<Edge("start", "guide", None, None), Edge("guide", "zz", None, None),
                 Edge("guide", "zz", None, None)>>]

InputGraphs ==
    {[nodes |-> ns, edges |-> es] : ns \in InputNodeLists, es \in InputEdgeLists}
    \cup {MalformedGraph}

\* dict helpers: a dict is a sequence of <<key, value>> pairs in insertion order
DictHas(d, k) == \E i \in 1..Len(d) : d[i][1] = k
DictGet(d, k) == d[CHOOSE i \in 1..Len(d) : d[i][1] = k][2]
DictPut(d, k, v) ==
    IF DictHas(d, k) THEN [i \in 1..Len(d) |-> IF d[i][1] = k THEN <<k, v>> ELSE d[i]]
    ELSE Append(d, <<k, v>>)
DictDel(d, k) == SelectSeq(d, LAMBDA kv : kv[1] # k)
RECURSIVE DictFrom(_)
DictFrom(pairs) ==
    IF pairs = <<>> THEN <<>>
    ELSE DictPut(DictFrom(SubSeq(pairs, 1, Len(pairs) - 1)),
                 pairs[Len(pairs)][1], pairs[Len(pairs)][2])

GraphInit ==
    /\ gpc = "init"
    /\ \E g \in InputGraphs :
         /\ heap = g.nodes
         /\ graph = [nodes |-> [i \in 1..Len(g.nodes) |-> i], edges |-> g.edges]
         /\ graph_before = g
    /\ operations = <<>>
    /\ op_index = 0
    /\ nodes = <<>>
    /\ edges = <<>>
    /\ errors = <<>>
    /\ applied_ops = 0

\* the input graph as its holder sees it now
GraphView == [nodes |-> [i \in 1..Len(graph.nodes) |-> heap[graph.nodes[i]]],
              edges |-> graph.edges]

\* lines 26-33: index the input nodes by id and the input edges by 4-tuple
\* the edge index leaves out the edges whose source or target is no node
ApplyBegin_SkipsDangling ==
    /\ gpc = "init"
    /\ bpc \in {"idle", "apply_plan_and_emit_graph"}
    /\ nodes' = DictFrom([i \in 1..Len(graph.nodes) |->
                            <<heap[graph.nodes[i]].id, graph.nodes[i]>>])
    /\ LET ids == {heap[graph.nodes[i]].id : i \in 1..Len(graph.nodes)}
           kept == SelectSeq(graph.edges, LAMBDA e : e[1] \in ids /\ e[2] \in ids)
       IN edges' = DictFrom([i \in 1..Len(kept) |-> <<kept[i], kept[i]>>])
    /\ errors' = <<>>
    /\ applied_ops' = 0
    /\ gpc' = "loop"
    /\ UNCHANGED <<heap, graph, graph_before, operations, op_index>>
    /\ UNCHANGED chatVars
    /\ UNCHANGED builderVars
    /\ UNCHANGED sharedVars

\* apply_operations is called on its own or by apply_plan_and_emit_graph
ApplyBegin ==
    /\ gpc = "init"
    /\ bpc \in {"idle", "apply_plan_and_emit_graph"}
    /\ nodes' = DictFrom([i \in 1..Len(graph.nodes) |->
                            <<heap[graph.nodes[i]].id, graph.nodes[i]>>])
    /\ edges' = DictFrom([i \in 1..Len(graph.edges) |-> <<graph.edges[i], graph.edges[i]>>])
    /\ errors' = <<>>
    /\ applied_ops' = 0
    /\ gpc' = "loop"
    /\ UNCHANGED <<heap, graph, graph_before, operations, op_index>>
    /\ UNCHANGED chatVars
    /\ UNCHANGED builderVars
    /\ UNCHANGED sharedVars

\* message holds the input key an "Input key not found" message names
OperationError(code, op_no, target_id) ==
    [code |-> code, op |-> op_no, target_id |-> target_id, message |-> None]

\* errors.append(OperationError(...))
Failed_Swallowed(errs, code, op_no, target_id) == errs
Failed(errs, code, op_no, target_id) ==
    Append(errs, OperationError(code, op_no, target_id))

\* the batch: any batch when apply_operations is studied on its own, the
\* operations of the plan when the builder flow calls it
InBatch(op) ==
    bpc = "idle" \/ (op_index < Len(plan) /\ plan[op_index + 1] = op)

BatchExhausted == bpc = "idle" \/ op_index = Len(plan)

\* the loop takes the next operation of the batch
Take(op) ==
    /\ gpc = "loop"
    /\ Len(operations) < MaxOps
    /\ InBatch(op)
    /\ operations' = Append(operations, op)
    /\ op_index' = op_index + 1
    /\ UNCHANGED <<gpc, graph, graph_before>>
    /\ UNCHANGED chatVars
    /\ UNCHANGED builderVars
    /\ UNCHANGED sharedVars

\* uuid.uuid4(): an id no node of the graph has
FreshId == "uuid"

\* the missing type is reported and the node is inserted all the same
ApplyAddNode_NoContinue ==
    \E op \in AddNodeOps :
      /\ Take(op)
      /\ LET node_id == IF op.params.id # None THEN op.params.id
                        ELSE IF op.target_id # None THEN op.target_id ELSE FreshId
             node_type == op.params.type
         IN /\ errors' = IF node_type = ""
                         THEN Failed(errors, "MISSING_NODE_TYPE", op_index + 1, node_id)
                         ELSE errors
            /\ heap' = Append(heap, NodeInstance(node_id, node_type, op.params.inputs))
            /\ nodes' = DictPut(nodes, node_id, Len(heap) + 1)
            /\ applied_ops' = applied_ops + 1
            /\ UNCHANGED edges

\* a node whose id is in the index already is left as it is
ApplyAddNode_KeepsExisting ==
    \E op \in AddNodeOps :
      /\ Take(op)
      /\ LET node_id == IF op.params.id # None THEN op.params.id
                        ELSE IF op.target_id # None THEN op.target_id ELSE FreshId
             node_type == op.params.type
         IN IF node_type = ""
            THEN /\ errors' = Failed(errors, "MISSING_NODE_TYPE", op_index + 1, node_id)
                 /\ UNCHANGED <<heap, nodes, edges, applied_ops>>
            ELSE /\ heap' = Append(heap, NodeInstance(node_id, node_type, op.params.inputs))
                 /\ nodes' = IF DictHas(nodes, node_id) THEN nodes
                              ELSE DictPut(nodes, node_id, Len(heap) + 1)
                 /\ applied_ops' = applied_ops + 1
                 /\ UNCHANGED <<edges, errors>>

ApplyAddNode ==
    \E op \in AddNodeOps :
      /\ Take(op)
      /\ LET node_id == IF op.params.id # None THEN op.params.id
                        ELSE IF op.target_id # None THEN op.target_id ELSE FreshId
             node_type == op.params.type
         IN IF node_type = ""
            THEN /\ errors' = Failed(errors, "MISSING_NODE_TYPE", op_index + 1, node_id)
                 /\ UNCHANGED <<heap, nodes, edges, applied_ops>>
            ELSE /\ heap' = Append(heap, NodeInstance(node_id, node_type, op.params.inputs))
                 /\ nodes' = DictPut(nodes, node_id, Len(heap) + 1)
                 /\ applied_ops' = applied_ops + 1
                 /\ UNCHANGED <<edges, errors>>

\* the cascade drops the edges that leave the node and keeps those that
\* enter it
ApplyRemoveNode_KeepsIncoming ==
    \E op \in RemoveNodeOps :
      /\ Take(op)
      /\ LET target_id == IF op.target_id # None THEN op.target_id ELSE op.params.id
         IN IF DictHas(nodes, target_id)
            THEN /\ nodes' = DictDel(nodes, target_id)
                 /\ edges' = SelectSeq(edges, LAMBDA kv : kv[1][1] # target_id)
                 /\ applied_ops' = applied_ops + 1
                 /\ UNCHANGED <<heap, errors>>
            ELSE /\ errors' = Failed(errors, "NODE_NOT_FOUND", op_index + 1, target_id)
                 /\ UNCHANGED <<heap, nodes, edges, applied_ops>>

ApplyRemoveNode ==
    \E op \in RemoveNodeOps :
      /\ Take(op)
      /\ LET target_id == IF op.target_id # None THEN op.target_id ELSE op.params.id
         IN IF DictHas(nodes, target_id)
            THEN /\ nodes' = DictDel(nodes, target_id)
                 /\ edges' = SelectSeq(edges, LAMBDA kv : kv[1][1] # target_id /\ kv[1][2] # target_id)
                 /\ applied_ops' = applied_ops + 1
                 /\ UNCHANGED <<heap, errors>>
            ELSE /\ errors' = Failed(errors, "NODE_NOT_FOUND", op_index + 1, target_id)
                 /\ UNCHANGED <<heap, nodes, edges, applied_ops>>

\* the edge is appended to a list, whether or not it is there already
ApplyAddEdge_Appends ==
    \E op \in AddEdgeOps :
      /\ Take(op)
      /\ LET p == op.params
             e == Edge(p.source, p.target, p.source_handle, p.target_handle)
         IN IF p.source # "" /\ p.target # ""
            THEN /\ edges' = Append(edges, <<e, e>>)
                 /\ applied_ops' = applied_ops + 1
                 /\ UNCHANGED <<heap, nodes, errors>>
            ELSE UNCHANGED <<heap, nodes, edges, errors, applied_ops>>

ApplyAddEdge ==
    \E op \in AddEdgeOps :
      /\ Take(op)
      /\ LET p == op.params
             e == Edge(p.source, p.target, p.source_handle, p.target_handle)
         IN IF p.source # "" /\ p.target # ""
            THEN /\ edges' = DictPut(edges, e, e)
                 /\ applied_ops' = applied_ops + 1
                 /\ UNCHANGED <<heap, nodes, errors>>
            ELSE UNCHANGED <<heap, nodes, edges, errors, applied_ops>>

ApplyRemoveEdge ==
    \E op \in RemoveEdgeOps :
      /\ Take(op)
      /\ LET p == op.params
             e == Edge(p.source, p.target, p.source_handle, p.target_handle)
         IN IF p.source # "" /\ p.target # ""
            THEN IF DictHas(edges, e)
                 THEN /\ edges' = DictDel(edges, e)
                      /\ applied_ops' = applied_ops + 1
                      /\ UNCHANGED <<heap, nodes, errors>>
                 ELSE /\ errors' = Failed(errors, "EDGE_NOT_FOUND", op_index + 1, None)
                      /\ UNCHANGED <<heap, nodes, edges, applied_ops>>
            ELSE UNCHANGED <<heap, nodes, edges, errors, applied_ops>>

\* input_map[key]: the last item of data.inputs with that key, 0 if none
InputIndex(data_inputs, key) ==
    IF key # "" /\ \E i \in 1..Len(data_inputs) : data_inputs[i].key = key
    THEN CHOOSE i \in 1..Len(data_inputs) :
            /\ data_inputs[i].key = key
            /\ \A j \in (i + 1)..Len(data_inputs) : data_inputs[j].key # key
    ELSE 0

\* lines 152-155: the updates written one after the other into the items
RECURSIVE WriteUpdates(_, _)
WriteUpdates(data_inputs, updates) ==
    IF updates = <<>> THEN data_inputs
    ELSE LET k == InputIndex(data_inputs, Head(updates).key)
         IN WriteUpdates(IF k = 0 THEN data_inputs
                         ELSE [data_inputs EXCEPT ![k].value = Head(updates).value],
                         Tail(updates))

\* the object the update writes to: the node object the index holds
UpdateTarget(ref) == ref

\* lines 126-130: data.inputs when it is a list, else the empty list
DataInputs(n) == IF n.io_lists THEN n.inputs ELSE <<>>

\* the known keys of the operation are written before the unknown ones are
\* reported
ApplyUpdateInputs_PartialWrite ==
    \E op \in UpdateInputsOps :
      /\ Take(op)
      /\ IF DictHas(nodes, op.target_id)
         THEN LET ref == DictGet(nodes, op.target_id)
                  updates == op.params.inputs
                  data_inputs == DataInputs(heap[ref])
                  missing_keys == SelectSeq(updates, LAMBDA u : InputIndex(data_inputs, u.key) = 0)
              IN IF updates = <<>>
                 THEN /\ errors' = Failed(errors, "INVALID_OP", op_index + 1, op.target_id)
                      /\ UNCHANGED <<heap, nodes, edges, applied_ops>>
                 ELSE /\ heap' = [heap EXCEPT ![UpdateTarget(ref)].inputs =
                                                 WriteUpdates(data_inputs, updates)]
                      /\ errors' = errors \o [i \in 1..Len(missing_keys) |->
                                        [OperationError("INVALID_OP", op_index + 1, op.target_id)
                                            EXCEPT !.message = missing_keys[i].key]]
                      /\ applied_ops' = IF missing_keys = <<>> THEN applied_ops + 1
                                        ELSE applied_ops
                      /\ UNCHANGED <<nodes, edges>>
         ELSE /\ errors' = Failed(errors, "NODE_NOT_FOUND", op_index + 1, op.target_id)
              /\ UNCHANGED <<heap, nodes, edges, applied_ops>>

ApplyUpdateInputs ==
    \E op \in UpdateInputsOps :
      /\ Take(op)
      /\ IF DictHas(nodes, op.target_id)
         THEN LET ref == DictGet(nodes, op.target_id)
                  updates == op.params.inputs
                  data_inputs == DataInputs(heap[ref])
                  missing_keys == SelectSeq(updates, LAMBDA u : InputIndex(data_inputs, u.key) = 0)
              IN IF updates = <<>>
                 THEN /\ errors' = Failed(errors, "INVALID_OP", op_index + 1, op.target_id)
                      /\ UNCHANGED <<heap, nodes, edges, applied_ops>>
                 ELSE IF missing_keys # <<>>
                 THEN /\ errors' = errors \o [i \in 1..Len(missing_keys) |->
                                        [OperationError("INVALID_OP", op_index + 1, op.target_id)
                                            EXCEPT !.message = missing_keys[i].key]]
                      /\ UNCHANGED <<heap, nodes, edges, applied_ops>>
                 ELSE /\ heap' = [heap EXCEPT ![UpdateTarget(ref)].inputs =
                                                 WriteUpdates(data_inputs, updates)]
                      /\ applied_ops' = applied_ops + 1
                      /\ UNCHANGED <<nodes, edges, errors>>
         ELSE /\ errors' = Failed(errors, "NODE_NOT_FOUND", op_index + 1, op.target_id)
              /\ UNCHANGED <<heap, nodes, edges, applied_ops>>

ApplyAutoHeal ==
    \E op \in AutoHealOps :
      /\ Take(op)
      /\ UNCHANGED <<heap, nodes, edges, errors, applied_ops>>

\* lines 171-178: the batch is exhausted, the result is returned
ApplyReturn ==
    /\ gpc = "loop"
    /\ BatchExhausted
    /\ gpc' = "done"
    /\ UNCHANGED <<heap, graph, graph_before, operations, op_index, nodes, edges,
                   errors, applied_ops>>
    /\ UNCHANGED chatVars
    /\ UNCHANGED builderVars
    /\ UNCHANGED sharedVars

\* ApplyResult.graph
ResultGraph == [nodes |-> [i \in 1..Len(nodes) |-> heap[nodes[i][2]]],
                edges |-> [i \in 1..Len(edges) |-> edges[i][2]]]

(***************************************************************************)
(* validate_graph of nexus/core/validators.py.  An error string is a       *)
(* record of its kind and of the ids it names; sorted(ids) is the set ids. *)
(***************************************************************************)
ValidationError(kind, ids, source, target) ==
    [kind |-> kind, ids |-> ids, source |-> source, target |-> target]

SeqToSet(q) == {q[i] : i \in 1..Len(q)}

\* lines 18-21
node_ids(g) == [i \in 1..Len(g.nodes) |-> g.nodes[i].id]

duplicates(g) ==
    {id \in SeqToSet(node_ids(g)) :
        Cardinality({i \in 1..Len(g.nodes) : g.nodes[i].id = id}) > 1}

\* lines 25-32: the errors of one node
NodeStructureErrors(n) ==
    (IF n.id = "" \/ n.type = ""
     THEN <<ValidationError("Node missing id or type", {}, None, None)>> ELSE <<>>)
    \o (IF ~n.io_lists
        THEN <<ValidationError("Node missing inputs or outputs", {n.id}, None, None)>>
        ELSE <<>>)

RECURSIVE StructureErrors(_)
StructureErrors(ns) ==
    IF ns = <<>> THEN <<>> ELSE NodeStructureErrors(Head(ns)) \o StructureErrors(Tail(ns))

\* lines 35-37
RECURSIVE EdgeErrors(_, _)
EdgeErrors(es, node_set) ==
    IF es = <<>> THEN <<>>
    ELSE (IF Head(es)[1] \notin node_set \/ Head(es)[2] \notin node_set
          THEN <<ValidationError("Edge invalid", {}, Head(es)[1], Head(es)[2])>> ELSE <<>>)
         \o EdgeErrors(Tail(es), node_set)

\* lines 40-44
RequiredNodeErrors(g) ==
    LET types == {g.nodes[i].type : i \in 1..Len(g.nodes)}
    IN (IF "userGuide" \notin types
        THEN <<ValidationError("Missing required node", {"userGuide"}, None, None)>> ELSE <<>>)
       \o (IF "workflowStart" \notin types
           THEN <<ValidationError("Missing required node", {"workflowStart"}, None, None)>>
           ELSE <<>>)

\* lines 47-51
terminal_nodes(g) ==
    LET target_ids == {g.edges[i][2] : i \in 1..Len(g.edges)}
    IN SelectSeq(node_ids(g), LAMBDA id : id \notin target_ids)

\* line 55: the search starts from every node of a system type
start_nodes_WorkflowStartOnly(g) ==
    {g.nodes[i].id : i \in {j \in 1..Len(g.nodes) : g.nodes[j].type = "workflowStart"}}
start_nodes(g) ==
    {g.nodes[i].id : i \in {j \in 1..Len(g.nodes) :
                                g.nodes[j].type \in {"userGuide", "workflowStart"}}}

\* lines 58-60: the targets of the edges that leave node_id
edges_by_source_Reversed(g, node_id) ==
    {g.edges[i][1] : i \in {j \in 1..Len(g.edges) : g.edges[j][2] = node_id}}
edges_by_source(g, node_id) ==
    {g.edges[i][2] : i \in {j \in 1..Len(g.edges) : g.edges[j][1] = node_id}}

\* lines 61-68: the search; its result does not depend on the order in
\* which the frontier is popped
RECURSIVE Visit(_, _, _)
Visit(g, frontier, visited) ==
    IF frontier = {} THEN visited
    ELSE LET node_id == CHOOSE id \in frontier : TRUE
             seen == visited \cup {node_id}
         IN Visit(g, (frontier \ {node_id}) \cup (edges_by_source(g, node_id) \ seen), seen)

\* only the start nodes count as visited
unreachable_StartsOnly(g) == SeqToSet(node_ids(g)) \ start_nodes(g)
unreachable(g) == SeqToSet(node_ids(g)) \ Visit(g, start_nodes(g), {})

\* the edges are not looked at
validate_graph_NoEdgeCheck(g) ==
    (IF duplicates(g) # {}
     THEN <<ValidationError("Duplicate node ids", duplicates(g), None, None)>> ELSE <<>>)
    \o StructureErrors(g.nodes)
    \o RequiredNodeErrors(g)
    \o (IF g.nodes # <<>> /\ terminal_nodes(g) = <<>>
        THEN <<ValidationError("No terminal nodes found", {}, None, None)>> ELSE <<>>)
    \o (IF unreachable(g) # {}
        THEN <<ValidationError("Unreachable nodes", unreachable(g), None, None)>> ELSE <<>>)

validate_graph(g) ==
    (IF duplicates(g) # {}
     THEN <<ValidationError("Duplicate node ids", duplicates(g), None, None)>> ELSE <<>>)
    \o StructureErrors(g.nodes)
    \o EdgeErrors(g.edges, SeqToSet(node_ids(g)))
    \o RequiredNodeErrors(g)
    \o (IF g.nodes # <<>> /\ terminal_nodes(g) = <<>>
        THEN <<ValidationError("No terminal nodes found", {}, None, None)>> ELSE <<>>)
    \o (IF unreachable(g) # {}
        THEN <<ValidationError("Unreachable nodes", unreachable(g), None, None)>> ELSE <<>>)

GraphNext ==
    \/ ApplyBegin
    \/ ApplyAddNode
    \/ ApplyRemoveNode
    \/ ApplyAddEdge
    \/ ApplyRemoveEdge
    \/ ApplyUpdateInputs
    \/ ApplyAutoHeal
    \/ ApplyReturn

(***************************************************************************)
(* validate_graph called on graphs of any shape: node lists in two orders, *)
(* with and without the system nodes, with a repeated id, and every edge   *)
(* list up to MaxGraphEdges over the node ids and one unknown id.          *)
(***************************************************************************)
MaxGraphEdges == 2
ValidatedNodeLists ==
    {<<>>,
     <<NodeInstance("start", "workflowStart", <<>>), NodeInstance("guide", "userGuide", <<>>),
       NodeInstance("n1", "code", <<>>), NodeInstance("n2", "code", <<>>)>>,
     <<NodeInstance("n2", "code", <<>>), NodeInstance("n1", "code", <<>>),
       NodeInstance("guide", "userGuide", <<>>), NodeInstance("start", "workflowStart", <<>>)>>,
     <<NodeInstance("guide", "userGuide", <<>>), NodeInstance("n1", "code", <<>>),
       NodeInstance("n2", "code", <<>>)>>,
     <<NodeInstance("n1", "code", <<>>), NodeInstance("n2", "code", <<>>)>>,
     <<NodeInstance("start", "workflowStart", <<>>), NodeInstance("n1", "code", <<>>),
       [NodeInstance("n1", "", <<>>) EXCEPT !.io_lists = FALSE],
       NodeInstance("n2", "code", <<>>)>>}
ValidatedEdges ==
    {Edge(a, b, None, None) : a, b \in {"start", "guide", "n1", "n2", "zz"}}
ValidatedEdgeLists == UNION {[1..k -> ValidatedEdges] : k \in 0..MaxGraphEdges}

ValidateInit ==
    /\ gpc = "validate"
    /\ \E ns \in ValidatedNodeLists, es \in ValidatedEdgeLists :
         /\ heap = ns
         /\ graph = [nodes |-> [i \in 1..Len(ns) |-> i], edges |-> es]
    /\ graph_before = [nodes |-> <<>>, edges |-> <<>>]
    /\ operations = <<>> /\ op_index = 0 /\ nodes = <<>> /\ edges = <<>>
    /\ errors = <<>> /\ applied_ops = 0

\* errors = validate_graph(graph)
ValidateGraph ==
    /\ gpc = "validate"
    /\ errors' = validate_graph(GraphView)
    /\ gpc' = "validated"
    /\ UNCHANGED <<heap, graph, graph_before, operations, op_index, nodes, edges, applied_ops>>
    /\ UNCHANGED chatVars
    /\ UNCHANGED builderVars
    /\ UNCHANGED sharedVars

ValidateNext ==
    \/ ValidateGraph

(***************************************************************************)
(* The builder flow: AgentService.handle_builder_request of                *)
(* nexus/services/agent_service.py.  The four nodes run in order, each     *)
(* followed by route_if_error; sse is what the flow has put on the queue   *)
(* the response stream is read from.                                       *)
(***************************************************************************)
\* the plans BuilderAgent.aplan hands over, operations as dicts: add a node
\* and connect it, remove an edge, remove a node, update an input and heal,
\* no operation, and a dict that Operation(**op) refuses
Plans ==
    {<<>>,
     <<Operation("ADD_NODE", None, [NoParams EXCEPT !.id = "n1", !.type = "code"]),
       Operation("ADD_EDGE", None, [NoParams EXCEPT !.source = "guide", !.target = "n1"])>>,
     <<Operation("ADD_EDGE", None, [NoParams EXCEPT !.source = "guide", !.target = "n1"])>>,
     <<Operation("REMOVE_EDGE", None, [NoParams EXCEPT !.source = "start", !.target = "guide"])>>,
     <<Operation("REMOVE_NODE", "guide", NoParams)>>,
     <<Operation("UPDATE_INPUTS", "n1", [NoParams EXCEPT !.inputs = <<Input("a", 2)>>]),
       Operation("AUTO_HEAL", None, NoParams)>>,
     <<Operation("NOT_AN_OP_TYPE", None, NoParams)>>}

OpType == {"ADD_NODE", "REMOVE_NODE", "UPDATE_INPUTS", "ADD_EDGE", "REMOVE_EDGE", "AUTO_HEAL"}

\* what build_operation_plan meets: a plan, an error dict, an exception of
\* aplan, or no plan and then the chat fallback, which returns or raises
PlanOutcomes ==
    {[kind |-> "plan", operations |-> p] : p \in Plans}
    \cup {[kind |-> k, operations |-> <<>>] :
            k \in {"error", "raises", "fallback", "fallback_raises"}}

BuilderInit ==
    /\ bpc = "load_available_node"
    /\ berror = None
    /\ plan = <<>>
    /\ sse = <<>>

route_if_error(error, next) == IF error # None THEN "__end__" ELSE next

\* step 1: registry.get_all_nodes returns or raises
LoadAvailableNode ==
    /\ bpc = "load_available_node"
    /\ \E raised \in BOOLEAN :
         \E error \in {IF raised THEN "exception" ELSE None} :
            /\ sse' = IF raised THEN Append(sse, "error") ELSE sse
            /\ berror' = error
            /\ bpc' = route_if_error(error, "build_operation_plan")
    /\ UNCHANGED plan
    /\ UNCHANGED chatVars
    /\ UNCHANGED graphVars
    /\ UNCHANGED sharedVars

\* step 2: the chunks of aplan are forwarded; the plan is kept
BuildOperationPlan ==
    /\ bpc = "build_operation_plan"
    /\ \E thought \in {<<>>, <<"chunk">>}, outcome \in PlanOutcomes :
         \E error \in {CASE outcome.kind = "plan" -> None
                          [] outcome.kind = "error" -> "plan_error"
                          [] outcome.kind = "raises" -> "exception"
                          [] outcome.kind = "fallback" -> "fallback_to_chat"
                          \* the exception leaves ainvoke; run_flow emits the error
                          [] outcome.kind = "fallback_raises" -> "exception"} :
            /\ sse' = sse \o thought
                        \o (IF outcome.kind \in {"fallback", "fallback_raises"}
                            THEN <<"chunk">> ELSE <<>>)
                        \o (IF outcome.kind \in {"error", "raises", "fallback_raises"}
                            THEN <<"error">> ELSE <<>>)
            /\ plan' = outcome.operations
            /\ berror' = error
            /\ bpc' = route_if_error(error, "validate_operation_plan")
    /\ UNCHANGED chatVars
    /\ UNCHANGED graphVars
    /\ UNCHANGED sharedVars

\* step 3: every operation of the plan is parsed
ValidateOperationPlan ==
    /\ bpc = "validate_operation_plan"
    /\ \E error \in {IF \E i \in 1..Len(plan) : plan[i].op_type \notin OpType
                      THEN "exception" ELSE None} :
         /\ sse' = IF error # None THEN Append(sse, "error") ELSE sse
         /\ berror' = error
         /\ bpc' = route_if_error(error, "apply_plan_and_emit_graph")
    /\ UNCHANGED plan
    /\ UNCHANGED chatVars
    /\ UNCHANGED graphVars
    /\ UNCHANGED sharedVars

\* the result is published as soon as the batch has no errors
ApplyPlanAndEmit_SkipsValidateGraph ==
    /\ bpc = "apply_plan_and_emit_graph"
    /\ gpc = "done"
    /\ \E layout_raises \in BOOLEAN :
         \E error \in {IF errors # <<>> THEN "apply_operations failed"
                        ELSE IF layout_raises THEN "exception" ELSE None} :
            /\ sse' = IF error # None THEN Append(sse, "error")
                       ELSE sse \o <<"layout", "graph", "diff">>
            /\ berror' = error
    /\ bpc' = "__end__"
    /\ UNCHANGED plan
    /\ UNCHANGED chatVars
    /\ UNCHANGED graphVars
    /\ UNCHANGED sharedVars

\* step 4, after apply_operations has returned: the errors of the batch,
\* then validate_graph, then the layout, then the three events
ApplyPlanAndEmit ==
    /\ bpc = "apply_plan_and_emit_graph"
    /\ gpc = "done"
    /\ \E layout_raises \in BOOLEAN :
         \E error \in {IF errors # <<>> THEN "apply_operations failed"
                        ELSE IF validate_graph(ResultGraph) # <<>>
                        THEN "graph validation failed"
                        ELSE IF layout_raises THEN "exception" ELSE None} :
            /\ sse' = IF error # None THEN Append(sse, "error")
                       ELSE sse \o <<"layout", "graph", "diff">>
            /\ berror' = error
    /\ bpc' = "__end__"
    /\ UNCHANGED plan
    /\ UNCHANGED chatVars
    /\ UNCHANGED graphVars
    /\ UNCHANGED sharedVars

\* the marker is put on the queue only when the flow ended without error
RunFlowEnd_MarkerOnSuccess ==
    /\ bpc = "__end__"
    /\ sse' = IF berror \in {None, "fallback_to_chat"} THEN Append(sse, "[DONE]") ELSE sse
    /\ bpc' = "done"
    /\ UNCHANGED <<berror, plan>>
    /\ UNCHANGED chatVars
    /\ UNCHANGED graphVars
    /\ UNCHANGED sharedVars

\* run_flow: ainvoke has returned or raised; finally the [DONE] marker
RunFlowEnd ==
    /\ bpc = "__end__"
    /\ sse' = Append(sse, "[DONE]")
    /\ bpc' = "done"
    /\ UNCHANGED <<berror, plan>>
    /\ UNCHANGED chatVars
    /\ UNCHANGED graphVars
    /\ UNCHANGED sharedVars

BuilderNext ==
    \/ LoadAvailableNode
    \/ BuildOperationPlan
    \/ ValidateOperationPlan
    \/ ApplyBegin
    \/ ApplyAddNode
    \/ ApplyRemoveNode
    \/ ApplyAddEdge
    \/ ApplyRemoveEdge
    \/ ApplyUpdateInputs
    \/ ApplyAutoHeal
    \/ ApplyReturn
    \/ ApplyPlanAndEmit
    \/ RunFlowEnd

(***************************************************************************)
(* The model handle cache: get_llm of nexus/core/llm/factory.py, called    *)
(* by the generate step on the event loop and by the review step, a sync   *)
(* node that LangGraph runs on a worker thread.  Objects live in           *)
(* llm_objects and are held by reference (their index); 0 is no object.    *)
(***************************************************************************)
MaxLlmCalls == 2      \* get_llm calls of the generate step of one request
LlmRequests == {1, 2}
ConfigIds == {1, 2}   \* configuration 2 is of a thinking model
ToolLists == {<<>>, <<"get_current_time">>}
ToolChoices == {"auto", "required"}

\* LLMRuntime(model, adapter, litellm_model, model_config) with the model in
\* it, the object at index `at` of llm_objects
LLMRuntime(at, config_id) ==
    [kind |-> "runtime", ref |-> <<"runtime", at, 0>>, config |-> config_id,
     model |-> 0, tools |-> <<>>, tool_choice |-> None]
\* ToolCallIdAdapter(model), around the bound model when tools are given:
\* the serial-th object that request r has made
ToolCallIdAdapter(r, serial, config_id, model, tools, tool_choice) ==
    [kind |-> "adapter", ref |-> <<"adapter", r, serial>>, config |-> config_id,
     model |-> model, tools |-> tools, tool_choice |-> tool_choice]
NoLlm ==
    [kind |-> "none", ref |-> <<"none", 0, 0>>, config |-> 0, model |-> 0,
     tools |-> <<>>, tool_choice |-> None]

\* the tools are bound on the cached model itself, which is returned
bind_model_with_tools_InPlace(objects, runtime, r, serial, tools, tool_choice) ==
    [objects |-> [objects EXCEPT ![runtime].tools = tools,
                                 ![runtime].tool_choice = tool_choice],
     llm |-> [objects[runtime] EXCEPT !.tools = tools, !.tool_choice = tool_choice]]
\* _bind_model_with_tools: a new adapter; with tools, a new bound model in
\* a new adapter
bind_model_with_tools(objects, runtime, r, serial, tools, tool_choice) ==
    [objects |-> objects,
     llm |-> ToolCallIdAdapter(r, serial, objects[runtime].config, runtime, tools,
                 IF tools = <<>> THEN None
                 ELSE normalize_tool_choice_for_model(objects[runtime].config = 2,
                                                      tool_choice))]

\* _get_runtime: the cached runtime, or a new one written to the cache, or
\* (runtime 0) BusinessError when the configuration cannot be fetched
get_runtime(cache, objects, config_id, fetched) ==
    IF cache[config_id] # 0
    THEN [cache |-> cache, objects |-> objects, runtime |-> cache[config_id]]
    ELSE IF ~fetched THEN [cache |-> cache, objects |-> objects, runtime |-> 0]
    ELSE [cache |-> [cache EXCEPT ![config_id] = Len(objects) + 1],
          objects |-> Append(objects, LLMRuntime(Len(objects) + 1, config_id)),
          runtime |-> Len(objects) + 1]

LlmIdle ==
    /\ llm_cache = [c \in ConfigIds |-> 0]
    /\ llm_objects = <<>>
    /\ lpc = [r \in LlmRequests |-> "idle"]
    /\ lreq = [r \in LlmRequests |->
                 [config |-> 1, calls |-> 0, made |-> 0, runtime |-> 0, llm |-> NoLlm]]

\* two requests arrive, for the same configuration or for two
LlmInit ==
    /\ llm_cache = [c \in ConfigIds |-> 0]
    /\ llm_objects = <<>>
    /\ lpc = [r \in LlmRequests |-> "generate"]
    /\ \E cs \in [LlmRequests -> ConfigIds] :
         lreq = [r \in LlmRequests |->
                   [config |-> cs[r], calls |-> 0, made |-> 0, runtime |-> 0, llm |-> NoLlm]]

\* _run_llm_answer calls get_llm, on the event loop: nothing runs between
\* the cache lookup, the cache write and the binding
GenerateGetLlm(r) ==
    /\ lpc[r] = "generate"
    /\ lreq[r].calls < MaxLlmCalls
    /\ \E tools \in ToolLists, tool_choice \in ToolChoices, fetched \in BOOLEAN :
       \E got \in {get_runtime(llm_cache, llm_objects, lreq[r].config, fetched)} :
         IF got.runtime = 0
         THEN /\ lpc' = [lpc EXCEPT ![r] = "failed"]
              /\ UNCHANGED <<llm_cache, llm_objects, lreq>>
         ELSE \E bound \in {bind_model_with_tools(got.objects, got.runtime, r,
                                                   lreq[r].made + 1, tools, tool_choice)} :
                /\ llm_cache' = got.cache
                /\ llm_objects' = bound.objects
                /\ lreq' = [lreq EXCEPT ![r].calls = @ + 1, ![r].made = @ + 1,
                                         ![r].runtime = got.runtime, ![r].llm = bound.llm]
                /\ \E next \in {"generate", "review", "done"} :
                     lpc' = [lpc EXCEPT ![r] = next]
    /\ UNCHANGED <<chatVars, graphVars, builderVars, historyVars, workflowVars, fnVars>>

\* _run_review_answer_sufficiency calls get_llm without tools, on a worker
\* thread: first _get_runtime
ReviewGetRuntime(r) ==
    /\ lpc[r] = "review"
    /\ \E fetched \in BOOLEAN :
       \E got \in {get_runtime(llm_cache, llm_objects, lreq[r].config, fetched)} :
         /\ llm_cache' = got.cache
         /\ llm_objects' = got.objects
         /\ lreq' = [lreq EXCEPT ![r].runtime = got.runtime]
         \* an exception of get_llm is caught by the review step
         /\ lpc' = [lpc EXCEPT ![r] = IF got.runtime = 0 THEN "done" ELSE "review_bind"]
    /\ UNCHANGED <<chatVars, graphVars, builderVars, historyVars, workflowVars, fnVars>>

\* then _bind_model_with_tools; the run goes back to generate or ends
ReviewBind(r) ==
    /\ lpc[r] = "review_bind"
    /\ \E bound \in {bind_model_with_tools(llm_objects, lreq[r].runtime, r,
                                            lreq[r].made + 1, <<>>, None)} :
         /\ llm_objects' = bound.objects
         /\ lreq' = [lreq EXCEPT ![r].made = @ + 1, ![r].llm = bound.llm]
    /\ \E next \in {"generate", "done"} : lpc' = [lpc EXCEPT ![r] = next]
    /\ UNCHANGED llm_cache
    /\ UNCHANGED <<chatVars, graphVars, builderVars, historyVars, workflowVars, fnVars>>

LlmNext ==
    \/ \E r \in LlmRequests : GenerateGetLlm(r)
    \/ \E r \in LlmRequests : ReviewGetRuntime(r)
    \/ \E r \in LlmRequests : ReviewBind(r)

(***************************************************************************)
(* The session history under concurrent chat requests of one session id.   *)
(* achat is a coroutine: its code between two awaits or yields runs        *)
(* without interleaving.                                                   *)
(***************************************************************************)
MaxParts == 2         \* answer deltas of one concurrent request
HistoryRequests == {1, 2}
AnswerDeltas == {<<" ">>, <<"a">>, <<"b", " ">>}

HistoryIdle ==
    /\ session_store = <<>>
    /\ hpc = [r \in HistoryRequests |-> "idle"]
    /\ hreq = [r \in HistoryRequests |->
                 [user_prompt |-> <<>>, read |-> <<>>, answer_parts |-> <<>>, at |-> 0]]

\* two requests arrive for a session that is new or has one earlier exchange
HistoryInit ==
    /\ session_store \in {<<>>} \cup Histories
    /\ hpc = [r \in HistoryRequests |-> "init"]
    /\ \E ps \in [HistoryRequests -> Prompts] :
         hreq = [r \in HistoryRequests |->
                   [user_prompt |-> ps[r], read |-> <<>>, answer_parts |-> <<>>, at |-> 0]]

\* achat up to its first yield: _build_app, which may raise, then the
\* history of the session is read into the run's messages
AchatBegin(r) ==
    /\ hpc[r] = "init"
    /\ \E built \in BOOLEAN :
         IF built
         THEN /\ hreq' = [hreq EXCEPT ![r].read = session_store]
              /\ hpc' = [hpc EXCEPT ![r] = "stream"]
         ELSE /\ hpc' = [hpc EXCEPT ![r] = "failed"]
              /\ UNCHANGED hreq
    /\ UNCHANGED session_store
    /\ UNCHANGED <<chatVars, graphVars, builderVars, llmVars, workflowVars, fnVars>>

\* one round of the stream loop: an answer delta, or an exception that ends
\* achat before the history is written
AchatStream(r) ==
    /\ hpc[r] = "stream"
    /\ Len(hreq[r].answer_parts) < MaxParts
    /\ \E raised \in BOOLEAN :
         IF raised
         THEN /\ hpc' = [hpc EXCEPT ![r] = "failed"]
              /\ UNCHANGED hreq
         ELSE /\ \E delta \in AnswerDeltas :
                   hreq' = [hreq EXCEPT ![r].answer_parts = Append(@, delta)]
              /\ UNCHANGED hpc
    /\ UNCHANGED session_store
    /\ UNCHANGED <<chatVars, graphVars, builderVars, llmVars, workflowVars, fnVars>>

\* the run writes back the history it read, with its own exchange added
AchatEnd_WritesBack(r) ==
    /\ hpc[r] = "stream"
    /\ session_store' = Committed(hreq[r].read, hreq[r], hreq[r])
    /\ hreq' = [hreq EXCEPT ![r].at = Len(hreq[r].read) + 1]
    /\ hpc' = [hpc EXCEPT ![r] = "done"]
    /\ UNCHANGED <<chatVars, graphVars, builderVars, llmVars, workflowVars, fnVars>>

\* the end of achat: add_user_message and add_ai_message on the history
\* object of the session, with no await or yield between them
AchatEnd(r) ==
    /\ hpc[r] = "stream"
    /\ session_store' = Committed(session_store, hreq[r], hreq[r])
    /\ hreq' = [hreq EXCEPT ![r].at = Len(session_store) + 1]
    /\ hpc' = [hpc EXCEPT ![r] = "done"]
    /\ UNCHANGED <<chatVars, graphVars, builderVars, llmVars, workflowVars, fnVars>>

HistoryNext ==
    \/ \E r \in HistoryRequests : AchatBegin(r)
    \/ \E r \in HistoryRequests : AchatStream(r)
    \/ \E r \in HistoryRequests : AchatEnd(r)

(***************************************************************************)
(* The workflow context cache over the successive requests of one session. *)
(***************************************************************************)
MaxSessionRequests == 3
\* context.workflow_graph is None, or a graph with its node ids
NoGraph == [present |-> FALSE, nodes |-> <<>>]
WorkflowGraphs == {[present |-> TRUE, nodes |-> <<"n1">>],
                   [present |-> TRUE, nodes |-> <<"n1", "n2">>]}
\* context.workflow_meta is None, or a WorkflowMeta with optional fields
NoMeta == [present |-> FALSE, workflow_name |-> "", workflow_description |-> ""]
WorkflowMetas == {[present |-> TRUE, workflow_name |-> "w", workflow_description |-> None],
                  [present |-> TRUE, workflow_name |-> "v", workflow_description |-> "d"]}
SessionRequests ==
    [mode : {"chat", "builder"}, model_config_id : {0, 1},
     workflow_graph : {NoGraph} \cup WorkflowGraphs,
     workflow_meta : {NoMeta} \cup WorkflowMetas,
     built : {FALSE}, graph_read : {NoGraph}, meta_read : {NoMeta}]

build_empty_workflow_graph == [present |-> TRUE, nodes |-> <<>>]
EMPTY_WORKFLOW_META == [present |-> TRUE, workflow_name |-> "", workflow_description |-> ""]
\* _normalize_workflow_meta: the two keys, a value that is no string becomes ""
normalize_workflow_meta(workflow_meta) ==
    [present |-> TRUE,
     workflow_name |-> IF workflow_meta.workflow_name = None THEN ""
                       ELSE workflow_meta.workflow_name,
     workflow_description |-> IF workflow_meta.workflow_description = None THEN ""
                              ELSE workflow_meta.workflow_description]
\* _to_workflow_meta_dict
to_workflow_meta_dict(workflow_meta_data) ==
    IF workflow_meta_data.present THEN normalize_workflow_meta(workflow_meta_data) ELSE NoMeta

\* the entry is replaced by what the request carries
merge_session_context_Replaces(current, workflow_graph_dict, workflow_meta_dict) ==
    IF ~workflow_graph_dict.present /\ ~workflow_meta_dict.present THEN current
    ELSE [workflow_graph |-> workflow_graph_dict,
          workflow_meta |-> IF workflow_meta_dict.present
                            THEN normalize_workflow_meta(workflow_meta_dict) ELSE NoMeta]
\* _merge_session_context on the entry of the session: the keys the request
\* carries are set, the others kept
merge_session_context(current, workflow_graph_dict, workflow_meta_dict) ==
    IF ~workflow_graph_dict.present /\ ~workflow_meta_dict.present THEN current
    ELSE [workflow_graph |-> IF workflow_graph_dict.present THEN workflow_graph_dict
                             ELSE current.workflow_graph,
          workflow_meta |-> IF workflow_meta_dict.present
                            THEN normalize_workflow_meta(workflow_meta_dict)
                            ELSE current.workflow_meta]

\* WorkflowGraphCache.cache_if_present
cache_if_present(entry, ctx) ==
    merge_session_context(entry, ctx.workflow_graph, to_workflow_meta_dict(ctx.workflow_meta))
\* WorkflowGraphCache._get_full_workflow_graph_dict: the request, then the
\* cache, then the empty skeleton
get_full_workflow_graph_dict(entry, ctx) ==
    IF ctx.workflow_graph.present THEN ctx.workflow_graph
    ELSE IF entry.workflow_graph.present THEN entry.workflow_graph
    ELSE build_empty_workflow_graph
\* WorkflowGraphCache.get_workflow_meta_dict
get_workflow_meta_dict(entry, ctx) ==
    IF ctx.workflow_meta.present THEN to_workflow_meta_dict(ctx.workflow_meta)
    ELSE IF entry.workflow_meta.present THEN normalize_workflow_meta(entry.workflow_meta)
    ELSE EMPTY_WORKFLOW_META

WorkflowIdle ==
    /\ session_context_cache = [workflow_graph |-> NoGraph, workflow_meta |-> NoMeta]
    /\ wpc = "idle"
    /\ wreq = [mode |-> "chat", model_config_id |-> 0, workflow_graph |-> NoGraph,
               workflow_meta |-> NoMeta, built |-> FALSE, graph_read |-> NoGraph,
               meta_read |-> NoMeta]
    /\ wlog = <<>>

\* the first request of a session arrives
WorkflowInit ==
    /\ session_context_cache = [workflow_graph |-> NoGraph, workflow_meta |-> NoMeta]
    /\ wpc = "arrived"
    /\ wreq \in SessionRequests
    /\ wlog = <<>>

\* the route: a request without model_config_id is rejected, the others go
\* to the handler of their mode
ChatCompletions ==
    /\ wpc = "arrived"
    /\ wpc' = IF wreq.model_config_id = 0 THEN "ended" ELSE wreq.mode
    /\ UNCHANGED <<session_context_cache, wreq, wlog>>
    /\ UNCHANGED <<chatVars, graphVars, builderVars, llmVars, historyVars, fnVars>>

\* handle_builder_request with a plan: the builder has its own tools, which
\* read the graph of the request only
BuilderPlans ==
    /\ wpc = "builder"
    /\ wpc' = "ended"
    /\ UNCHANGED <<session_context_cache, wreq, wlog>>
    /\ UNCHANGED <<chatVars, graphVars, builderVars, llmVars, historyVars, fnVars>>

\* handle_builder_request without a plan falls back to ChatAgent.achat
BuilderFallsBack ==
    /\ wpc = "builder"
    /\ wpc' = "chat"
    /\ UNCHANGED <<session_context_cache, wreq, wlog>>
    /\ UNCHANGED <<chatVars, graphVars, builderVars, llmVars, historyVars, fnVars>>

\* _build_app builds the workflow tools: the base tools and the MCP tools
\* each call cache_if_present when they are constructed
BuildWorkflowTools ==
    /\ wpc = "chat"
    /\ session_context_cache' =
           cache_if_present(cache_if_present(session_context_cache, wreq), wreq)
    /\ wreq' = [wreq EXCEPT !.built = TRUE]
    /\ wpc' = "tools"
    /\ UNCHANGED wlog
    /\ UNCHANGED <<chatVars, graphVars, builderVars, llmVars, historyVars, fnVars>>

\* a workflow tool runs: it reads the graph and the meta
WorkflowToolReads ==
    /\ wpc = "tools"
    /\ ~wreq.graph_read.present
    /\ wreq' = [wreq EXCEPT
                  !.graph_read = get_full_workflow_graph_dict(session_context_cache, wreq),
                  !.meta_read = get_workflow_meta_dict(session_context_cache, wreq)]
    /\ UNCHANGED <<session_context_cache, wpc, wlog>>
    /\ UNCHANGED <<chatVars, graphVars, builderVars, llmVars, historyVars, fnVars>>

\* the chat run ends
ChatRequestEnds ==
    /\ wpc = "tools"
    /\ wpc' = "ended"
    /\ UNCHANGED <<session_context_cache, wreq, wlog>>
    /\ UNCHANGED <<chatVars, graphVars, builderVars, llmVars, historyVars, fnVars>>

\* the next request of the session arrives
NextSessionRequest ==
    /\ wpc = "ended"
    /\ Len(wlog) + 1 < MaxSessionRequests
    /\ wlog' = Append(wlog, [workflow_graph |-> wreq.workflow_graph, built |-> wreq.built])
    /\ wreq' \in SessionRequests
    /\ wpc' = "arrived"
    /\ UNCHANGED session_context_cache
    /\ UNCHANGED <<chatVars, graphVars, builderVars, llmVars, historyVars, fnVars>>

WorkflowNext ==
    \/ ChatCompletions
    \/ BuilderPlans
    \/ BuilderFallsBack
    \/ BuildWorkflowTools
    \/ WorkflowToolReads
    \/ ChatRequestEnds
    \/ NextSessionRequest

(***************************************************************************)
(* Functions of the code applied to drawn arguments: fn_pc names the       *)
(* function once it has returned, fn_args holds its arguments, fn_result   *)
(* the value it returned.                                                  *)
(***************************************************************************)
NoResult == [returned |-> FALSE]
Returned(value) == [returned |-> TRUE, value |-> value]

FnIdle == fn_pc = "idle" /\ fn_args = <<>> /\ fn_result = NoResult

(***************************************************************************)
(* The tool-use policy applied to the message lists a run can hold: the    *)
(* messages of StartRun, then rounds of one assistant message with tool    *)
(* calls and the tool messages ToolNode returns for them.                  *)
(***************************************************************************)
\* tool results: empty, blank, evidence, the same evidence with a trailing
\* blank, other evidence
ToolContents == {<<>>, <<" ">>, <<"x">>, <<"x", " ">>, <<"y">>}
\* the tool list handed to select_tool_candidates: none, the registered
\* tools, the same tools registered in the other order
PolicyToolLists == {<<>>, TOOLS, <<TOOLS[2], TOOLS[1]>>}
\* review_guidance: empty, or the guidance of a need_more_tools verdict
FocusTexts == {<<>>, build_review_guidance_message(<<>>, "get_current_time")}

RECURSIVE ToolMessagesOfRound(_, _, _)
ToolMessagesOfRound(calls, results, first_id) ==
    IF calls = <<>> THEN <<>>
    ELSE <<ToolMessage(Head(results), Head(calls), first_id)>>
         \o ToolMessagesOfRound(Tail(calls), Tail(results), first_id + 1)

PolicyInit ==
    /\ fn_pc = "history"
    /\ \E user_prompt \in Prompts, history \in Histories :
         fn_args = [context |-> [user_prompt |-> user_prompt],
                    messages |-> <<SystemMessage(<<"CHAT_SYSTEM_PROMPT">>, 1)>>
                                 \o WithIds(history, 2)
                                 \o <<HumanMessage(user_prompt, Len(history) + 2)>>,
                    tools |-> <<>>,
                    focus_text |-> <<>>]
    /\ fn_result = NoResult

\* a generate round whose message carries tool calls, and the tool node:
\* the model is given tools only while the policy does not say "none"
ToolRound ==
    /\ fn_pc = "history"
    /\ resolve_tool_choice(fn_args.context, fn_args.messages) # "none"
    /\ \E calls \in CallLists(TOOLS) :
       \E results \in [1..Len(calls) -> ToolContents] :
         fn_args' = [fn_args EXCEPT !.messages =
                        @ \o <<AIMessage(<<>>, calls, FALSE, Len(@) + 1)>>
                          \o ToolMessagesOfRound(calls, results, Len(@) + 2)]
    /\ UNCHANGED <<fn_pc, fn_result>>
    /\ UNCHANGED <<chatVars, graphVars, builderVars, llmVars, historyVars, workflowVars>>

ResolveToolChoice ==
    /\ fn_pc = "history"
    /\ fn_pc' = "resolve_tool_choice"
    /\ fn_result' = Returned(resolve_tool_choice(fn_args.context, fn_args.messages))
    /\ UNCHANGED fn_args
    /\ UNCHANGED <<chatVars, graphVars, builderVars, llmVars, historyVars, workflowVars>>

NoNewEvidenceStreak ==
    /\ fn_pc = "history"
    /\ fn_pc' = "_no_new_evidence_streak"
    /\ fn_result' = Returned(_no_new_evidence_streak(fn_args.messages))
    /\ UNCHANGED fn_args
    /\ UNCHANGED <<chatVars, graphVars, builderVars, llmVars, historyVars, workflowVars>>

SelectToolCandidates ==
    /\ fn_pc = "history"
    /\ fn_pc' = "select_tool_candidates"
    /\ \E tools \in PolicyToolLists, focus_text \in FocusTexts :
         /\ fn_args' = [fn_args EXCEPT !.tools = tools, !.focus_text = focus_text]
         /\ fn_result' = Returned(select_tool_candidates(fn_args.context, fn_args.messages,
                                                         tools, focus_text))
    /\ UNCHANGED <<chatVars, graphVars, builderVars, llmVars, historyVars, workflowVars>>

PolicyNext ==
    \/ ToolRound
    \/ ResolveToolChoice
    \/ NoNewEvidenceStreak
    \/ SelectToolCandidates

(***************************************************************************)
(* ensure_tool_call_ids of nexus/core/llm/tool_call_adapter.py applied to  *)
(* the messages a model can return.  A raw call is a record with its id,   *)
(* its name and, in the provider format, a function entry with the name;   *)
(* an absent id, name or function is "" or NoFunction.                     *)
(***************************************************************************)
MaxRawCalls == 2    \* tool calls of one raw message, per field

NoFunction == [present |-> FALSE, name |-> ""]
\* langchain tool_call(name, args, id)
tool_call(name, id) == [id |-> id, name |-> name, function |-> NoFunction]
\* the entry of additional_kwargs["tool_calls"]
FunctionCall(name, id) ==
    [id |-> id, name |-> "", function |-> [present |-> TRUE, name |-> name]]

RawIds == {"", " ", "c1"}
RawNames == {"", "t"}
ParsedCalls == {tool_call(n, i) : n \in RawNames, i \in RawIds}
ProviderCalls == {FunctionCall(n, i) : n \in RawNames, i \in RawIds}
CallSeqs(S) == UNION {[1..n -> S] : n \in 0..MaxRawCalls}
\* what the model stream leaves: an assistant message whose calls are in
\* tool_calls, in additional_kwargs, in both or in neither, or a message
\* of another type
RawMessages ==
    [type : {"ai"}, content : {<<"a">>},
     tool_calls : CallSeqs(ParsedCalls),
     additional_kwargs_tool_calls : CallSeqs(ProviderCalls)]
    \cup {[type |-> "human", content |-> <<"a">>, tool_calls |-> <<>>,
            additional_kwargs_tool_calls |-> <<>>]}

\* f"call_{uuid4().hex}": a fresh id, here named by the position of the call
uuid4_call_id(serial) == <<"call_1", "call_2", "call_3", "call_4">>[serial]

NoCall == [present |-> FALSE, id |-> "", name |-> ""]

\* _build_normalized_tool_call: [call, id_patched]
_build_normalized_tool_call(call_data, serial) ==
    LET id_patched == call_data.id \in {"", " "}
        call_id == IF id_patched THEN uuid4_call_id(serial) ELSE call_data.id
        call_name == IF call_data.function.present THEN call_data.function.name
                     ELSE call_data.name
    IN IF call_name = ""
       THEN [call |-> NoCall, id_patched |-> id_patched]
       ELSE [call |-> [present |-> TRUE, id |-> call_id, name |-> call_name],
             id_patched |-> id_patched]

\* ensure_tool_call_ids
ensure_tool_call_ids(message) ==
    IF message.type # "ai" THEN message
    ELSE LET raw_tool_calls == IF message.tool_calls # <<>> THEN message.tool_calls
                               ELSE message.additional_kwargs_tool_calls
             built == [k \in 1..Len(raw_tool_calls) |->
                          _build_normalized_tool_call(raw_tool_calls[k], k).call]
             normalized_calls == SelectSeq(built, LAMBDA c : c.present)
         IN IF raw_tool_calls = <<>> THEN message
            ELSE IF normalized_calls = <<>> THEN message
            ELSE [message EXCEPT
                    !.tool_calls = [k \in 1..Len(normalized_calls) |->
                                       tool_call(normalized_calls[k].name,
                                                 normalized_calls[k].id)],
                    !.additional_kwargs_tool_calls =
                        [k \in 1..Len(normalized_calls) |->
                            FunctionCall(normalized_calls[k].name,
                                         normalized_calls[k].id)]]

\* the model stream of a generate round has ended with a message
AdapterInit ==
    /\ fn_pc = "streamed"
    /\ fn_args \in [message : RawMessages]
    /\ fn_result = NoResult

\* _run_llm_answer hands the streamed message to ensure_tool_call_ids
EnsureToolCallIds ==
    /\ fn_pc = "streamed"
    /\ fn_pc' = "ensure_tool_call_ids"
    /\ fn_result' = Returned(ensure_tool_call_ids(fn_args.message))
    /\ UNCHANGED fn_args
    /\ UNCHANGED <<chatVars, graphVars, builderVars, llmVars, historyVars, workflowVars>>

AdapterNext == EnsureToolCallIds

(***************************************************************************)
(* split_response_content applied to the raw texts a model can stream.     *)
(***************************************************************************)
MaxTextLen == 4    \* tokens of one raw text

\* the tokens of a raw text: the two delimiters, two words and a blank
TextTokens == {OPEN, CLOSE, "a", "r", " "}
RawTexts == UNION {[1..n -> TextTokens] : n \in 0..MaxTextLen}

\* the model stream of a generate round has ended with a text
SplitInit ==
    /\ fn_pc = "streamed"
    /\ fn_args \in [content : RawTexts]
    /\ fn_result = NoResult

\* _run_llm_answer hands the content of the message to split_response_content
SplitResponseContent ==
    /\ fn_pc = "streamed"
    /\ fn_pc' = "split_response_content"
    /\ fn_result' = Returned(split_response_content(fn_args.content))
    /\ UNCHANGED fn_args
    /\ UNCHANGED <<chatVars, graphVars, builderVars, llmVars, historyVars, workflowVars>>

SplitNext == SplitResponseContent

(***************************************************************************)
(* Specifications: the chat run, the mutation engine and the builder flow  *)
(* are studied apart; the response streams are studied together.           *)
(***************************************************************************)
GraphIdle ==
    /\ gpc = "idle" /\ heap = <<>> /\ graph = [nodes |-> <<>>, edges |-> <<>>]
    /\ graph_before = [nodes |-> <<>>, edges |-> <<>>]
    /\ operations = <<>> /\ op_index = 0 /\ nodes = <<>> /\ edges = <<>>
    /\ errors = <<>> /\ applied_ops = 0

ChatIdle ==
    /\ node = "idle"
    /\ context = [user_prompt |-> <<>>, model_config_id |-> 0,
                  enable_thinking |-> FALSE, history0 |-> <<>>]
    /\ store = <<>> /\ messages = <<>> /\ review_guidance = <<>>
    /\ force_tool_call = FALSE /\ pending_answer_requires_review = FALSE
    /\ sufficiency_review_action = "answer" /\ sufficiency_review_count = 0
    /\ review_result = NoReview /\ review_calls = 0 /\ step_count = 0
    /\ achat = InitialFrame /\ llm_messages = <<>>

BuilderIdle == bpc = "idle" /\ berror = None /\ plan = <<>> /\ sse = <<>>

\* a chat request arrives; no batch is being applied
SharedIdle == LlmIdle /\ HistoryIdle /\ WorkflowIdle /\ FnIdle
ChatStart == ChatInit /\ GraphIdle /\ BuilderIdle /\ SharedIdle
\* a batch is to be applied; no chat request runs
GraphStart == ChatIdle /\ GraphInit /\ BuilderIdle /\ SharedIdle
\* a builder request arrives with its current graph
BuilderStart == ChatIdle /\ GraphInit /\ BuilderInit /\ SharedIdle
\* two chat requests use the model handle cache
LlmStart ==
    ChatIdle /\ GraphIdle /\ BuilderIdle /\ LlmInit /\ HistoryIdle /\ WorkflowIdle /\ FnIdle
\* two chat requests of one session run concurrently
HistoryStart ==
    ChatIdle /\ GraphIdle /\ BuilderIdle /\ LlmIdle /\ HistoryInit /\ WorkflowIdle /\ FnIdle
\* the requests of one session arrive one after the other
WorkflowStart ==
    ChatIdle /\ GraphIdle /\ BuilderIdle /\ LlmIdle /\ HistoryIdle /\ WorkflowInit /\ FnIdle
\* a graph is handed to validate_graph
ValidateStart == ChatIdle /\ ValidateInit /\ BuilderIdle /\ SharedIdle
IdleButFn == ChatIdle /\ GraphIdle /\ BuilderIdle /\ LlmIdle /\ HistoryIdle /\ WorkflowIdle
\* the tool-use policy is applied to a message list
PolicyStart == IdleButFn /\ PolicyInit
\* a streamed message is handed to ensure_tool_call_ids
AdapterStart == IdleButFn /\ AdapterInit
\* a streamed text is handed to split_response_content
SplitStart == IdleButFn /\ SplitInit
\* the stream handed to the response: the events of handle_chat_request in
\* chat mode, the queue of handle_builder_request in builder mode
handler_stream ==
    IF bpc = "idle" THEN [i \in 1..Len(achat.events) |-> achat.events[i].type] ELSE sse
\* both handlers catch Exception themselves, so no exception reaches the
\* wrapper of the route
stream_raises == FALSE
\* _safe_stream: the chunks are passed on; an exception of the stream
\* becomes an error event and a [DONE] marker
safe_stream(stream, raised) ==
    IF raised THEN stream \o <<"error", "[DONE]">> ELSE stream
response == safe_stream(handler_stream, stream_raises)

\* a request of either mode arrives
ServiceStart == ChatStart \/ BuilderStart

Init ==
    \/ ChatStart \/ GraphStart \/ BuilderStart \/ LlmStart \/ HistoryStart
    \/ WorkflowStart \/ ValidateStart \/ PolicyStart \/ AdapterStart
    \/ SplitStart
Next ==
    \/ ChatNext \/ GraphNext \/ BuilderNext \/ LlmNext \/ HistoryNext \/ WorkflowNext
    \/ ValidateNext \/ PolicyNext \/ AdapterNext \/ SplitNext
Spec == Init /\ [][Next]_vars

ChatSpec == ChatStart /\ [][ChatNext]_vars
\* the event loop keeps driving the stream of a run that has a step to take
ChatLiveSpec == ChatSpec /\ WF_vars(ChatNext)
GraphSpec == GraphStart /\ [][GraphNext]_vars
BuilderSpec == BuilderStart /\ [][BuilderNext]_vars
LlmSpec == LlmStart /\ [][LlmNext]_vars
HistorySpec == HistoryStart /\ [][HistoryNext]_vars
WorkflowSpec == WorkflowStart /\ [][WorkflowNext]_vars
ValidateSpec == ValidateStart /\ [][ValidateNext]_vars
PolicySpec == PolicyStart /\ [][PolicyNext]_vars
AdapterSpec == AdapterStart /\ [][EnsureToolCallIds]_vars
SplitSpec == SplitStart /\ [][SplitResponseContent]_vars

ServiceNext ==
    \/ StartRun
    \/ Generate
    \/ GenerateRaises
    \/ ExecuteTools
    \/ ExecuteToolsRaises
    \/ Review
    \/ LoadAvailableNode
    \/ BuildOperationPlan
    \/ ValidateOperationPlan
    \/ ApplyBegin
    \/ ApplyAddNode
    \/ ApplyRemoveNode
    \/ ApplyAddEdge
    \/ ApplyRemoveEdge
    \/ ApplyUpdateInputs
    \/ ApplyAutoHeal
    \/ ApplyReturn
    \/ ApplyPlanAndEmit
    \/ RunFlowEnd
\* the event loop keeps driving a request that has a step to take
ServiceLiveSpec == ServiceStart /\ [][ServiceNext]_vars /\ WF_vars(ServiceNext)

(***************************************************************************)
(* Properties of the chat run.                                             *)
(***************************************************************************)
LastMessage == messages[Len(messages)]

\* the content of the answer.done event of a completed run
FinalAnswer == achat.events[Len(achat.events) - 2].content

\* what a completed run leaves in the session history for the final answer
HistoryAfter(final_answer) ==
    context.history0
    \o <<[type |-> "human", content |-> context.user_prompt]>>
    \o (IF final_answer # <<>> THEN <<[type |-> "ai", content |-> final_answer]>> ELSE <<>>)

RemainingToolCalls ==
    IF MAX_TOOL_CALLS_PER_QUESTION > get_tool_message_count(messages)
    THEN MAX_TOOL_CALLS_PER_QUESTION - get_tool_message_count(messages) ELSE 0

\* C1: the number of tool-result messages of a run never exceeds
\* MAX_TOOL_CALLS_PER_QUESTION (3).
C1_ToolBudget == get_tool_message_count(messages) <= MAX_TOOL_CALLS_PER_QUESTION

\* C2 as stated: a run ends after at most 3 invocations of the review step.
C2_AtMostThreeReviews == review_calls <= MAX_ANSWER_SUFFICIENCY_REVIEW_ROUNDS

\* C2 amended: the review step is invoked at most 4 times in a run; at most 3
\* invocations consult the reviewer (and may return to generate), and a 4th
\* invocation finds the ceiling reached and ends the run with ask_user.
C2_ReviewBound ==
    /\ review_calls <= MAX_ANSWER_SUFFICIENCY_REVIEW_ROUNDS + 1
    /\ sufficiency_review_count <= MAX_ANSWER_SUFFICIENCY_REVIEW_ROUNDS
    /\ review_calls > MAX_ANSWER_SUFFICIENCY_REVIEW_ROUNDS =>
         /\ node = "done"
         /\ sufficiency_review_action = "ask_user"
         /\ review_result = NoReview

C2_Witness ==
    /\ node = "done"
    /\ review_calls = MAX_ANSWER_SUFFICIENCY_REVIEW_ROUNDS + 1
    /\ sufficiency_review_action = "ask_user"

\* C3: when every model call and tool call returns, every run reaches the end
\* state; a run otherwise ends by the exception.
C3_Terminates == <>(node \in {"done", "failed"})

C3_Witness ==
    /\ node = "done"
    /\ review_calls >= 2
    /\ get_tool_message_count(messages) >= 2

\* C4: a reviewer call that raises or returns an unparsable result ends the
\* run with action ask_user and the user-guidance text as final assistant
\* message and final answer; the candidate is not released.
C4_ReviewerFailureAsksUser ==
    review_result.status = "error" =>
        /\ node = "done"
        /\ sufficiency_review_action = "ask_user"
        /\ LastMessage.type = "ai"
        /\ ~LastMessage.pending
        /\ LastMessage.content = build_need_user_input_message(<<>>, <<>>)
        /\ FinalAnswer = build_need_user_input_message(<<>>, <<>>)
        /\ store = HistoryAfter(FinalAnswer)

C4_Witness ==
    /\ review_result.status = "error"
    /\ node = "done"
    /\ \E i \in 1..Len(messages) :
         messages[i].pending /\ messages[i].content # <<>>

\* C5: a raw need_more_tools verdict given with no tool-call budget left,
\* with no candidate tool left, or with a suggested tool outside the
\* candidate set does not return to generate: the run ends with ask_user and
\* a non-empty user-guidance text as final assistant message.
C5_Downgrade ==
    (/\ review_result.status = "need_more_tools"
     /\ \/ RemainingToolCalls = 0
        \/ CandidateTools(context, messages, <<>>) = <<>>
        \/ review_result.suggested_tool_name
             \notin ToolNames(CandidateTools(context, messages, <<>>)))
    => /\ node = "done"
       /\ sufficiency_review_action = "ask_user"
       /\ ~force_tool_call
       /\ LastMessage.type = "ai"
       /\ LastMessage.tool_calls = <<>>
       /\ strip(LastMessage.content) # <<>>
       /\ FinalAnswer = strip(LastMessage.content)

C5_Witness ==
    /\ review_result.status = "need_more_tools"
    /\ RemainingToolCalls > 0
    /\ CandidateTools(context, messages, <<>>) # <<>>
    /\ review_result.suggested_tool_name
         \notin ToolNames(CandidateTools(context, messages, <<>>))
    /\ node = "done"

\* C6: no answer.delta event is emitted for a candidate answer by the step
\* that leaves it pending review.
C6_NoPendingTextDelivered ==
    [][(node' = NODE_REVIEW /\ pending_answer_requires_review')
        => \A i \in (Len(achat.events) + 1)..Len(achat'.events) :
              achat'.events[i].type # "answer.delta"]_vars

\* C7: when a run ends with a sufficient verdict, the final answer in
\* answer.done and in the session history is the approved candidate's
\* content, trimmed.
C7_FinalIsApprovedCandidate ==
    (node = "done" /\ review_result.status = "sufficient") =>
        /\ FinalAnswer = strip(LastMessage.content)
        /\ store = HistoryAfter(strip(LastMessage.content))

\* C8: a run that ends by an exception leaves the session history as it was
\* before the request.
C8_FailureLeavesHistory == node = "failed" => store = context.history0

C8_Witness ==
    /\ node = "failed"
    /\ achat.answer_parts # <<>>
    /\ get_tool_message_count(messages) >= 1
    /\ context.history0 # <<>>

(***************************************************************************)
(* Properties of apply_operations.                                         *)
(***************************************************************************)
ErrorsOf(i) == Cardinality({k \in 1..Len(errors) : errors[k].op = i})

\* an operation the loop neither applies nor reports
Silent(op) ==
    \/ op.op_type = "AUTO_HEAL"
    \/ /\ op.op_type \in {"ADD_EDGE", "REMOVE_EDGE"}
       /\ (op.params.source = "" \/ op.params.target = "")

C10_InputGraphUnchanged == GraphView = graph_before

\* the operation the loop has processed last
LastOp == operations[Len(operations)]

\* the node the working index holds under an id
NodeAt(id) == heap[DictGet(nodes, id)]

\* the keys of the input items of a node
InputKeys(n) ==
    IF n.io_lists THEN {n.inputs[i].key : i \in 1..Len(n.inputs)} \ {""} ELSE {}

\* C11: an UPDATE_INPUTS operation on an existing node with an update whose
\* key is not among the node's input keys appends one INVALID_OP error per
\* such update, naming the operation, the node and the key, and changes
\* nothing else: no node, no input value, no edge, not applied_ops.
C11_UnknownKeyAbandons ==
    [][(gpc = "loop" /\ Len(operations') = Len(operations) + 1) =>
         LET op == operations'[Len(operations')]
         IN (op.op_type = "UPDATE_INPUTS" /\ DictHas(nodes, op.target_id)) =>
              LET keys == InputKeys(NodeAt(op.target_id))
                  unknown == SelectSeq(op.params.inputs, LAMBDA u : u.key \notin keys)
              IN unknown # <<>> =>
                   /\ Len(errors') = Len(errors) + Len(unknown)
                   /\ SubSeq(errors', 1, Len(errors)) = errors
                   /\ \A k \in 1..Len(unknown) :
                        errors'[Len(errors) + k] =
                            [code |-> "INVALID_OP", op |-> Len(operations'),
                             target_id |-> op.target_id, message |-> unknown[k].key]
                   /\ heap' = heap
                   /\ nodes' = nodes
                   /\ edges' = edges
                   /\ applied_ops' = applied_ops]_vars

\* an update list with a known and an unknown key has been abandoned
C11_Witness ==
    /\ gpc = "loop"
    /\ operations = <<Operation("UPDATE_INPUTS", "n1",
                          [NoParams EXCEPT !.inputs = <<Input("a", 2), Input("b", 3)>>])>>
    /\ DictHas(nodes, "n1")
    /\ NodeAt("n1").inputs = <<Input("a", 1)>>
    /\ Len(errors) = 1
    /\ errors[1].message = "b"
    /\ applied_ops = 0

\* an ADD_EDGE operation that inserts an edge with x as source or target
AddsEdgeAt(op, x) ==
    /\ op.op_type = "ADD_EDGE"
    /\ op.params.source # "" /\ op.params.target # ""
    /\ (op.params.source = x \/ op.params.target = x)

\* C12: when a batch holds a successful REMOVE_NODE of X and no later
\* operation of the batch adds an edge with X as source or target, the
\* output graph has no edge with X as source or target and validate_graph
\* reports no invalid edge that names X.
C12_RemoveNodeCascades ==
    gpc = "done" =>
        LET result == ResultGraph
            found == validate_graph(result)
        IN \A i \in 1..Len(operations) :
            LET x == operations[i].target_id
            IN (/\ operations[i].op_type = "REMOVE_NODE"
                /\ ErrorsOf(i) = 0
                /\ \A j \in (i + 1)..Len(operations) : ~AddsEdgeAt(operations[j], x))
               => /\ \A k \in 1..Len(result.edges) :
                       result.edges[k][1] # x /\ result.edges[k][2] # x
                  /\ \A k \in 1..Len(found) :
                       found[k].kind = "Edge invalid"
                       => /\ found[k].source # x
                          /\ found[k].target # x

\* guide, with edges entering and leaving it, is removed in the middle of a
\* batch that has added an edge at it before
C12_Witness ==
    /\ gpc = "done"
    /\ Len(graph_before.edges) = 2
    /\ Len(operations) = 3
    /\ AddsEdgeAt(operations[1], "guide")
    /\ operations[2] = Operation("REMOVE_NODE", "guide", NoParams)
    /\ ErrorsOf(2) = 0
    /\ operations[3].op_type = "ADD_NODE"
    /\ edges = <<>>

\* no node id and no edge 4-tuple occurs twice in the graph
NoRepeats(g) ==
    /\ \A i, j \in 1..Len(g.nodes) : g.nodes[i].id = g.nodes[j].id => i = j
    /\ \A i, j \in 1..Len(g.edges) : g.edges[i] = g.edges[j] => i = j

\* C13 as stated: for every input graph, validate_graph of the result of
\* the empty batch equals validate_graph of the input graph.
C13_EmptyBatchAnyGraph ==
    (gpc = "done" /\ operations = <<>>)
    => validate_graph(ResultGraph) = validate_graph(graph_before)

\* C13 amended: for every input graph in which no node id and no edge
\* 4-tuple occurs twice (dangling edges included), the empty batch returns
\* the same node list and edge list, and validate_graph of the result equals
\* validate_graph of the input graph.
C13_EmptyBatchRoundTrip ==
    (gpc = "done" /\ operations = <<>> /\ NoRepeats(graph_before))
    => /\ ResultGraph = graph_before
       /\ validate_graph(ResultGraph) = validate_graph(graph_before)

\* the empty batch has run on a graph with a dangling edge
C13_Witness ==
    /\ gpc = "done"
    /\ operations = <<>>
    /\ NoRepeats(graph_before)
    /\ \E k \in 1..Len(validate_graph(graph_before)) :
         validate_graph(graph_before)[k].kind = "Edge invalid"
    /\ validate_graph(ResultGraph) = validate_graph(graph_before)

\* the graph of the scenarios: start (workflowStart), guide (userGuide) and
\* the edge start -> guide
TwoNodeGraph ==
    [nodes |-> <<NodeInstance("start", "workflowStart", <<>>),
                 NodeInstance("guide", "userGuide", <<>>)>>,
     edges |-> <<Edge("start", "guide", None, None)>>]

\* [REMOVE_EDGE{source: start, target: guide}] has been applied to it
RemoveEdgeScenario ==
    /\ gpc = "done"
    /\ graph_before = TwoNodeGraph
    /\ operations = <<Operation("REMOVE_EDGE", None,
                          [NoParams EXCEPT !.source = "start", !.target = "guide"])>>

\* C14 as stated: the REMOVE_EDGE succeeds with applied_ops = 1 and no
\* error, and validate_graph reports guide as unreachable.
C14_GuideUnreachable ==
    RemoveEdgeScenario =>
        /\ applied_ops = 1
        /\ errors = <<>>
        /\ \E k \in 1..Len(validate_graph(ResultGraph)) :
             /\ validate_graph(ResultGraph)[k].kind = "Unreachable nodes"
             /\ "guide" \in validate_graph(ResultGraph)[k].ids

\* C14 amended: the REMOVE_EDGE succeeds with applied_ops = 1 and no error,
\* the result has both nodes and no edge, and validate_graph returns the
\* empty list: the search starts from guide as well, a system node.
C14_RemoveEdgeLeavesValidGraph ==
    RemoveEdgeScenario =>
        /\ applied_ops = 1
        /\ errors = <<>>
        /\ ResultGraph = [nodes |-> TwoNodeGraph.nodes, edges |-> <<>>]
        /\ validate_graph(ResultGraph) = <<>>

C14_Witness == RemoveEdgeScenario /\ applied_ops = 1 /\ edges = <<>>

\* the 4-tuple an edge operation names
OpEdge(op) ==
    <<op.params.source, op.params.target, op.params.source_handle, op.params.target_handle>>

\* how often a 4-tuple occurs in an edge list
EdgeCountIn(es, e) == Cardinality({k \in 1..Len(es) : es[k] = e})

\* operation i inserts an edge that no later operation of the batch removes
EdgeAddedAndKept(i) ==
    /\ operations[i].op_type = "ADD_EDGE"
    /\ operations[i].params.source # "" /\ operations[i].params.target # ""
    /\ \A j \in (i + 1)..Len(operations) :
         /\ ~(operations[j].op_type = "REMOVE_EDGE"
              /\ OpEdge(operations[j]) = OpEdge(operations[i]))
         /\ ~(operations[j].op_type = "REMOVE_NODE"
              /\ operations[j].target_id \in {operations[i].params.source,
                                               operations[i].params.target})

\* C15: the result holds no 4-tuple (source, target, source_handle,
\* target_handle) twice, and holds exactly once the 4-tuple of every ADD_EDGE
\* that is not removed later: the same ADD_EDGE applied twice gives one
\* edge, and an ADD_EDGE that differs in a handle gives a second edge
\* beside the first.
C15_AddEdgeIdempotent ==
    gpc \in {"loop", "done"} =>
        LET es == ResultGraph.edges
        IN /\ \A k \in 1..Len(es) : EdgeCountIn(es, es[k]) = 1
           /\ \A i \in 1..Len(operations) :
                EdgeAddedAndKept(i) => EdgeCountIn(es, OpEdge(operations[i])) = 1

\* the same ADD_EDGE twice, then the same source and target with a handle
C15_Witness ==
    /\ gpc = "done"
    /\ graph_before.edges = <<>>
    /\ Len(operations) = 3
    /\ operations[1] = operations[2]
    /\ EdgeAddedAndKept(1)
    /\ OpEdge(operations[1]) = <<"guide", "n1", None, None>>
    /\ OpEdge(operations[3]) = <<"guide", "n1", "h", None>>
    /\ operations[3].op_type = "ADD_EDGE"
    /\ ResultGraph.edges = <<OpEdge(operations[1]), OpEdge(operations[3])>>
    /\ applied_ops = 3

\* the id an ADD_NODE operation gives its node
AddedNodeId(op) ==
    IF op.params.id # None THEN op.params.id
    ELSE IF op.target_id # None THEN op.target_id ELSE FreshId

\* operation i writes a node that no later operation of the batch writes,
\* removes or updates
NodeWrittenLast(i) ==
    /\ operations[i].op_type = "ADD_NODE"
    /\ operations[i].params.type # ""
    /\ \A j \in (i + 1)..Len(operations) :
         /\ operations[j].op_type = "ADD_NODE"
              => AddedNodeId(operations[j]) # AddedNodeId(operations[i])
         /\ operations[j].op_type \in {"REMOVE_NODE", "UPDATE_INPUTS"}
              => operations[j].target_id # AddedNodeId(operations[i])

\* C16: the result holds no node id twice, and under the id of every
\* successful ADD_NODE that no later operation writes, removes or updates it
\* holds the node with that operation's type and data, whether or not the id
\* was in the input graph or written by an earlier operation.
C16_AddNodeLastWriteWins ==
    gpc \in {"loop", "done"} =>
        LET ns == ResultGraph.nodes
        IN /\ \A a, b \in 1..Len(ns) : ns[a].id = ns[b].id => a = b
           /\ \A i \in 1..Len(operations) :
                NodeWrittenLast(i) =>
                   \E a \in 1..Len(ns) :
                       ns[a] = [id |-> AddedNodeId(operations[i]),
                                type |-> operations[i].params.type,
                                inputs |-> operations[i].params.inputs,
                                io_lists |-> TRUE]

\* n1 of the input graph is written twice, with another type the second time
C16_Witness ==
    /\ gpc = "done"
    /\ Len(graph_before.nodes) = 3
    /\ graph_before.nodes[3] = NodeInstance("n1", "code", <<Input("a", 1)>>)
    /\ Len(operations) = 2
    /\ operations[1].op_type = "ADD_NODE" /\ operations[1].params.type = "code"
    /\ AddedNodeId(operations[1]) = "n1"
    /\ operations[2].op_type = "ADD_NODE" /\ operations[2].params.type = "tool"
    /\ AddedNodeId(operations[2]) = "n1"
    /\ Len(ResultGraph.nodes) = 3
    /\ ResultGraph.nodes[3] = NodeInstance("n1", "tool", <<Input("a", 0)>>)
    /\ applied_ops = 2

AddNodeAndEdgeScenario ==
    /\ gpc = "done"
    /\ graph_before = TwoNodeGraph
    /\ operations = <<Operation("ADD_NODE", None,
                          [NoParams EXCEPT !.id = "n1", !.type = "code"]),
                      Operation("ADD_EDGE", None,
                          [NoParams EXCEPT !.source = "guide", !.target = "n1"])>>

\* C18: on {start(workflowStart), guide(userGuide)} with the edge
\* start->guide, [ADD_NODE{type: code, id: n1}, ADD_EDGE{guide -> n1}] gives
\* exactly 3 nodes and 2 edges, applied_ops = 2, no errors, and
\* validate_graph returns the empty list for the result.
C18_AddNodeAndEdgeGivesValidGraph ==
    AddNodeAndEdgeScenario =>
        /\ Len(ResultGraph.nodes) = 3
        /\ Len(ResultGraph.edges) = 2
        /\ applied_ops = 2
        /\ errors = <<>>
        /\ validate_graph(ResultGraph) = <<>>

C18_Witness ==
    /\ AddNodeAndEdgeScenario
    /\ node_ids(ResultGraph) = <<"start", "guide", "n1">>
    /\ ResultGraph.edges = <<Edge("start", "guide", None, None),
                             Edge("guide", "n1", None, None)>>

\* the events of the builder stream
Emitted(type) == \E i \in 1..Len(sse) : sse[i] = type
Published == Emitted("layout") \/ Emitted("graph") \/ Emitted("diff")
\* the flow has ended, with or without the [DONE] marker on the queue
FlowEnded == bpc \in {"__end__", "done"}
\* apply_operations has returned without errors and validate_graph has
\* returned the empty list for its result
CleanApply == gpc = "done" /\ errors = <<>> /\ validate_graph(ResultGraph) = <<>>

\* C19 as stated: layout, graph and diff are emitted only after a clean
\* apply, and a flow that ends in any other case has emitted an error event
\* and none of the three.
C19_ErrorInEveryOtherCase ==
    /\ Published => CleanApply
    /\ (FlowEnded /\ ~CleanApply) => (Emitted("error") /\ ~Published)

\* C19 amended: layout, graph and diff are emitted together, in this order,
\* as the last events before [DONE], only after a clean apply and never
\* with an error event; a flow that ends in any other case has emitted none
\* of the three, and it has emitted an error event unless the planner gave
\* no plan and the chat answer was streamed instead (fallback_to_chat),
\* where apply_operations never ran; whenever apply_operations or
\* validate_graph reported errors, an error event has been emitted.
C19_AllOrNothingPublish ==
    /\ Published =>
         /\ CleanApply
         /\ ~Emitted("error")
         /\ \E k \in 1..Len(sse) :
              /\ k + 2 <= Len(sse)
              /\ SubSeq(sse, k, k + 2) = <<"layout", "graph", "diff">>
              /\ \A i \in 1..Len(sse) :
                   (i < k \/ i > k + 2) => sse[i] \in {"chunk", "[DONE]"}
              /\ Len(sse) > k + 2 => (Len(sse) = k + 3 /\ sse[k + 3] = "[DONE]")
    /\ (FlowEnded /\ ~CleanApply) =>
         /\ ~Published
         /\ Emitted("error") \/ berror = "fallback_to_chat"
    /\ berror = "fallback_to_chat" => (gpc = "init" /\ ~Emitted("error"))
    /\ (FlowEnded /\ gpc = "done" /\ ~CleanApply) => Emitted("error")
    /\ (FlowEnded /\ CleanApply) => (Published \/ Emitted("error"))

\* a plan was applied without errors, its result fails validate_graph, and
\* the stream has ended with an error event and none of the three events
C19_Witness ==
    /\ bpc = "done"
    /\ gpc = "done"
    /\ applied_ops >= 1
    /\ errors = <<>>
    /\ validate_graph(ResultGraph) # <<>>
    /\ Emitted("error")
    /\ ~Published

\* the response stream has ended with the terminal marker
Closed == response # <<>> /\ response[Len(response)] = "[DONE]"
\* the request failed: achat raised, or a step of the builder flow set an
\* error other than the fallback to chat
Fatal ==
    IF bpc = "idle" THEN node = "failed" ELSE berror \notin {None, "fallback_to_chat"}

\* C20: every chat or builder response stream eventually ends with the
\* [DONE] marker; the marker occurs at most once and only as the last
\* event, nothing is emitted after it, and a stream that failed carries an
\* error event before the marker.
C20_StreamEndsWithDone ==
    /\ <>Closed
    /\ [](/\ \A i \in 1..Len(response) : response[i] = "[DONE]" => i = Len(response)
          /\ (node \in {"done", "failed"} \/ bpc = "done") => Closed
          /\ (Closed /\ Fatal) =>
                \E i \in 1..(Len(response) - 1) : response[i] = "error")
    /\ [][Closed => response' = response]_vars

\* a builder request whose layout step raised after a clean apply: the
\* stream has ended with the error event and then the marker
C20_Witness ==
    /\ bpc = "done"
    /\ gpc = "done"
    /\ berror = "exception"
    /\ Len(sse) >= 2
    /\ SubSeq(sse, Len(sse) - 1, Len(sse)) = <<"error", "[DONE]">>
    /\ Closed

\* the types of the events of the chat stream, and how often one occurs
EventTypes == [i \in 1..Len(achat.events) |-> achat.events[i].type]
EventCount(type) == Cardinality({i \in 1..Len(achat.events) : achat.events[i].type = type})

\* C21: a chat request whose model configuration id is missing (0) or
\* cannot be resolved (2) never completes and never emits answer.done or
\* run.completed; once it has ended it has failed after at most one
\* generate attempt and no review, its stream holds exactly one error
\* event, directly followed by the terminal marker, and the session
\* history is as it was before the request.
C21_ConfigurationErrorIsFatal ==
    context.model_config_id \in {0, 2} =>
        /\ node # "done"
        /\ EventCount("answer.done") = 0
        /\ EventCount("run.completed") = 0
        /\ EventCount("answer.delta") = 0
        /\ store = context.history0
        /\ step_count <= 1
        /\ review_calls = 0
        /\ node = "failed" =>
             /\ EventCount("error") = 1
             /\ EventCount("[DONE]") = 1
             /\ Len(achat.events) >= 2
             /\ SubSeq(EventTypes, Len(achat.events) - 1, Len(achat.events))
                  = <<"error", "[DONE]">>
        /\ node # "failed" => EventCount("error") = 0 /\ EventCount("[DONE]") = 0

\* the configuration of a started run could not be resolved
C21_Witness ==
    /\ context.model_config_id = 2
    /\ node = "failed"
    /\ EventTypes = <<"run.started", "phase.started", "error", "[DONE]">>
    /\ context.history0 # <<>>

\* C22: the stream of a chat run that has completed without exception
\* begins with run.started and phase.started(analyze_question) and ends,
\* before the terminal marker of the service, with phase.completed,
\* answer.done and run.completed in this order; answer.done and
\* run.completed occur exactly once, and the length carried by
\* run.completed is the length of the content of answer.done.  A run that
\* has not completed has emitted neither of the two.
C22_CompletedRunEvents ==
    /\ node = "done" =>
         LET n == Len(achat.events)
         IN /\ n >= 6
            /\ achat.events[1].type = "run.started"
            /\ achat.events[2].type = "phase.started"
            /\ achat.events[2].phase = PHASE_ANALYZE_QUESTION
            /\ SubSeq(EventTypes, n - 3, n)
                 = <<"phase.completed", "answer.done", "run.completed", "[DONE]">>
            /\ EventCount("answer.done") = 1
            /\ EventCount("run.completed") = 1
            /\ achat.events[n - 1].content = <<Len(achat.events[n - 2].content)>>
    /\ node # "done" => EventCount("answer.done") = 0 /\ EventCount("run.completed") = 0

\* a completed run whose joined answer parts lost white space to strip
C22_Witness ==
    /\ node = "done"
    /\ FinalAnswer # <<>>
    /\ Len(Join(achat.answer_parts)) > Len(FinalAnswer)

\* the phase events of the chat stream, in order
IsPhaseEvent(e) == e.type \in {"phase.started", "phase.completed"}
PhaseEvents == SelectSeq(achat.events, IsPhaseEvent)

\* C23: in the stream of a chat run the phase events alternate, beginning
\* with phase.started: every phase.completed names the phase of the
\* phase.started just before it, a phase.started never names the phase of
\* the phase.started before it, the phase that is open is the tracker's
\* current phase, and no phase is open once run.completed is emitted.
C23_PhasesAlternate ==
    LET ps == PhaseEvents
    IN /\ \A k \in 1..Len(ps) :
            /\ ps[k].phase \in {PHASE_ANALYZE_QUESTION, PHASE_EXECUTE_TOOLS,
                                 PHASE_REVIEW_ANSWER, PHASE_GENERATE_FINAL_ANSWER}
            /\ k % 2 = 1 => ps[k].type = "phase.started"
            /\ k % 2 = 0 => (ps[k].type = "phase.completed" /\ ps[k].phase = ps[k - 1].phase)
            /\ (k % 2 = 1 /\ k >= 3) => ps[k].phase # ps[k - 2].phase
       /\ Len(ps) % 2 = 1 => ps[Len(ps)].phase = achat.current_phase
       /\ EventCount("run.completed") > 0 => Len(ps) % 2 = 0
       /\ (ps # <<>> /\ EventCount("run.completed") = 0) => Len(ps) % 2 = 1

\* a completed run that went through the four phases and came back to one
C23_Witness ==
    /\ node = "done"
    /\ Len(PhaseEvents) >= 10
    /\ {PhaseEvents[k].phase : k \in 1..Len(PhaseEvents)}
         = {PHASE_ANALYZE_QUESTION, PHASE_EXECUTE_TOOLS,
            PHASE_REVIEW_ANSWER, PHASE_GENERATE_FINAL_ANSWER}

\* the runtime objects the cache holds
CachedRuntimes == {llm_cache[c] : c \in {k \in ConfigIds : llm_cache[k] # 0}}

\* C24: a cache entry, once written, is never replaced and the object it
\* names is never changed, whatever get_llm calls the requests make and
\* however they interleave; the review step always finds the entry of its
\* configuration; every llm that get_llm returns is an object that no
\* request held before the call, is not a cached object, and wraps the
\* cached handle of the request's configuration, which still has no tools
\* bound.
C24_CacheEntryWrittenOnce ==
    /\ [][\A c \in ConfigIds :
            llm_cache[c] # 0 =>
                /\ llm_cache'[c] = llm_cache[c]
                /\ llm_objects'[llm_cache[c]] = llm_objects[llm_cache[c]]]_vars
    /\ [][\A r \in LlmRequests :
            lreq'[r].llm # lreq[r].llm =>
                /\ \A q \in LlmRequests : lreq[q].llm.ref # lreq'[r].llm.ref
                /\ \A o \in 1..Len(llm_objects') : llm_objects'[o].ref # lreq'[r].llm.ref]_vars
    /\ [](\A r \in LlmRequests :
            /\ lpc[r] \in {"review", "review_bind"} => llm_cache[lreq[r].config] # 0
            /\ lreq[r].llm # NoLlm =>
                 /\ lreq[r].llm.kind = "adapter"
                 /\ lreq[r].llm.model = llm_cache[lreq[r].config]
                 /\ lreq[r].llm.config = lreq[r].config)
    /\ [](\A o \in CachedRuntimes : llm_objects[o] = LLMRuntime(o, llm_objects[o].config))

\* two requests of one configuration: the second found the entry the first
\* wrote, and they hold wrappers with and without tools around it
C24_Witness ==
    /\ lreq[1].config = lreq[2].config
    /\ lpc[1] = "done" /\ lpc[2] = "done"
    /\ lreq[1].runtime = lreq[2].runtime
    /\ lreq[1].runtime = llm_cache[lreq[1].config]
    /\ Len(llm_objects) = 1
    /\ lreq[1].llm.tools # <<>>
    /\ lreq[2].llm.tools = <<>>
    /\ lreq[1].made = 3 /\ lreq[2].made = 2

(***************************************************************************)
(* Properties of the session history under concurrent requests.            *)
(***************************************************************************)
\* what a concurrent request that completes adds to the history
Exchange(r) == Committed(<<>>, hreq[r], hreq[r])
HistoryDone == {r \in HistoryRequests : hpc[r] = "done"}

\* C25: for every interleaving of the chat requests of one session, every
\* step leaves the messages already in the history where they are, a step
\* adds messages only when a request completes and then adds exactly the
\* prompt of that request followed by its own final answer when that is
\* not empty, and the exchanges of the completed requests stay adjacent
\* and do not overlap.
C25_HistoryAppendOnly ==
    /\ [][/\ Len(session_store') >= Len(session_store)
          /\ SubSeq(session_store', 1, Len(session_store)) = session_store
          /\ \A r \in HistoryRequests :
                hpc[r] # "done" /\ hpc'[r] = "done" =>
                    session_store' = session_store \o Exchange(r)
          /\ (\A r \in HistoryRequests : hpc[r] # "done" => hpc'[r] # "done") =>
                session_store' = session_store]_vars
    /\ [](\A r \in HistoryDone :
            SubSeq(session_store, hreq[r].at, hreq[r].at + Len(Exchange(r)) - 1) = Exchange(r))
    /\ [](\A r, q \in HistoryDone :
            r # q => \/ hreq[r].at + Len(Exchange(r)) <= hreq[q].at
                     \/ hreq[q].at + Len(Exchange(q)) <= hreq[r].at)

\* both requests read the history before either wrote it, and both wrote a
\* prompt and an answer: the second exchange follows the first
C25_Witness ==
    /\ HistoryDone = HistoryRequests
    /\ hreq[1].read = hreq[2].read
    /\ Len(Exchange(1)) = 2 /\ Len(Exchange(2)) = 2
    /\ hreq[2].at = hreq[1].at + 2
    /\ Len(session_store) = Len(hreq[1].read) + 4
    /\ Len(hreq[1].read) = 2

(***************************************************************************)
(* Properties of the workflow context cache.                               *)
(***************************************************************************)
\* the graph of the most recent request of a log that carried one
RECURSIVE LastCarried(_)
LastCarried(log) ==
    IF log = <<>> THEN NoGraph
    ELSE IF log[Len(log)].workflow_graph.present THEN log[Len(log)].workflow_graph
    ELSE LastCarried(SubSeq(log, 1, Len(log) - 1))
\* the same among the requests for which the workflow tools were built
LastCarriedBuilt(log) == LastCarried(SelectSeq(log, LAMBDA e : e.built))
FallbackOf(g) == IF g.present THEN g ELSE build_empty_workflow_graph
WorkflowToolsRead == wreq.graph_read.present

\* C26 as stated: the tools read the graph of the request, and without one
\* the graph of the most recent earlier request of the session that
\* carried one
C26_CachedGraphOfLatestCarrier ==
    WorkflowToolsRead =>
        wreq.graph_read = IF wreq.workflow_graph.present THEN wreq.workflow_graph
                          ELSE FallbackOf(LastCarried(wlog))

\* C26, amended: the workflow tools read the graph of the request when it
\* carries one, and building them has put it in the cache; without one
\* they read the cached graph, which is the graph of the most recent
\* earlier request that carried one and for which the workflow tools were
\* built (the empty skeleton when there is none); the cache changes only
\* when the workflow tools are built, a request with only meta keeps the
\* cached graph and one with only a graph keeps the cached meta.
C26_CachedGraphOfLatestBuilt ==
    /\ [](WorkflowToolsRead =>
            /\ wreq.graph_read = IF wreq.workflow_graph.present THEN wreq.workflow_graph
                                 ELSE FallbackOf(LastCarriedBuilt(wlog))
            /\ wreq.meta_read = IF wreq.workflow_meta.present
                                THEN normalize_workflow_meta(wreq.workflow_meta)
                                ELSE IF session_context_cache.workflow_meta.present
                                THEN session_context_cache.workflow_meta
                                ELSE EMPTY_WORKFLOW_META)
    /\ [](session_context_cache.workflow_graph =
            LastCarriedBuilt(Append(wlog, [workflow_graph |-> wreq.workflow_graph,
                                           built |-> wreq.built])))
    /\ [][session_context_cache' # session_context_cache =>
            /\ wpc = "chat" /\ wpc' = "tools"
            /\ session_context_cache'.workflow_graph =
                   IF wreq.workflow_graph.present THEN wreq.workflow_graph
                   ELSE session_context_cache.workflow_graph
            /\ session_context_cache'.workflow_meta =
                   IF wreq.workflow_meta.present
                   THEN normalize_workflow_meta(wreq.workflow_meta)
                   ELSE session_context_cache.workflow_meta]_vars

\* a chat request cached a graph, a builder request then carried another
\* and planned, and the tools of a third request without a graph read the
\* first graph
C26_Witness ==
    /\ WorkflowToolsRead
    /\ ~wreq.workflow_graph.present
    /\ LastCarriedBuilt(wlog).present
    /\ LastCarried(wlog) # LastCarriedBuilt(wlog)
    /\ wreq.graph_read = LastCarriedBuilt(wlog)

(***************************************************************************)
(* Properties of the reachability check of validate_graph.                 *)
(***************************************************************************)
\* the ids of the nodes of a system type
SystemNodeIds(g) ==
    {g.nodes[i].id : i \in {j \in 1..Len(g.nodes) :
                                g.nodes[j].type = "workflowStart" \/ g.nodes[j].type = "userGuide"}}
\* the sequences of edges of g in which each edge starts where the one
\* before it ends
EdgeWalks(g) ==
    {w \in UNION {[1..k -> 1..Len(g.edges)] : k \in 1..Len(g.edges)} :
        \A i \in 1..(Len(w) - 1) : g.edges[w[i]][2] = g.edges[w[i + 1]][1]}
\* there is a directed path of edges from a system node to id
HasPathFromSystemNode(g, id) ==
    \/ id \in SystemNodeIds(g)
    \/ \E w \in EdgeWalks(g) :
         g.edges[w[1]][1] \in SystemNodeIds(g) /\ g.edges[w[Len(w)]][2] = id
\* the ids the error list reports as unreachable
ReportedUnreachable(errs) ==
    UNION {errs[i].ids : i \in {j \in 1..Len(errs) : errs[j].kind = "Unreachable nodes"}}

\* C27: for every graph, whatever the order of its nodes and edges and
\* whatever errors the earlier checks added, the error list of
\* validate_graph names a node id as unreachable exactly when no directed
\* path of edges leads to it from a node of type workflowStart or
\* userGuide; there is at most one unreachable entry, it is the last of
\* the list and it is never empty.
C27_UnreachableIffNoPath ==
    gpc = "validated" =>
        LET g == GraphView
            reported == ReportedUnreachable(errors)
        IN /\ \A id \in SeqToSet(node_ids(g)) :
                 id \in reported <=> ~HasPathFromSystemNode(g, id)
           /\ reported \subseteq SeqToSet(node_ids(g))
           /\ \A i \in 1..Len(errors) :
                 errors[i].kind = "Unreachable nodes" => i = Len(errors) /\ errors[i].ids # {}

\* a graph with a repeated node id and an edge to an unknown id: the
\* earlier checks report both, n2 is reached through the unknown id, and
\* the repeated id n1 is the one unreachable node
C27_Witness ==
    /\ gpc = "validated"
    /\ \E i \in 1..Len(errors) : errors[i].kind = "Duplicate node ids"
    /\ \E i \in 1..Len(errors) : errors[i].kind = "Edge invalid"
    /\ ReportedUnreachable(errors) = {"n1"}
    /\ graph.edges = <<Edge("zz", "n2", None, None), Edge("start", "zz", None, None)>>

(***************************************************************************)
(* Properties of the routing of the chat run.                              *)
(***************************************************************************)
\* a step of the generate node that returned
GenerateStep == node = NODE_GENERATE /\ node' # "failed"
\* a step of the review node
ReviewStep == node = NODE_REVIEW /\ node' # NODE_REVIEW
HasToolCalls(m) == m.type = "ai" /\ m.tool_calls # <<>>

\* C28: every generate step appends one assistant message and leaves
\* exactly one of three cases: the message carries tool calls and the next
\* node is execute_tools; pending_answer_requires_review is true and the
\* next node is review; neither, and the run ends.  The flag, and the
\* pending tag of the message, are never set for a message with tool calls.
C28_OneOutcomeAfterGenerate ==
    [][GenerateStep =>
        LET m == messages'[Len(messages')]
        IN /\ Len(messages') = Len(messages) + 1
           /\ m.type = "ai"
           /\ m.pending = pending_answer_requires_review'
           /\ ~(HasToolCalls(m) /\ pending_answer_requires_review')
           /\ HasToolCalls(m) <=> node' = NODE_EXECUTE_TOOLS
           /\ pending_answer_requires_review' <=> node' = NODE_REVIEW
           /\ (~HasToolCalls(m) /\ ~pending_answer_requires_review') <=> node' = "done"]_vars

\* a candidate waits for review in a run whose earlier generate step asked
\* for tools
C28_Witness ==
    /\ node = NODE_REVIEW
    /\ pending_answer_requires_review
    /\ ~HasToolCalls(LastMessage) /\ LastMessage.pending
    /\ \E i \in 1..Len(messages) : HasToolCalls(messages[i])
    /\ get_tool_message_count(messages) >= 1

\* C29, routing: a generate step whose message has no tool calls goes to
\* review exactly when the prompt has a workflow-context keyword or the
\* messages already hold a tool result; otherwise it ends the run, in which
\* the review node was never invoked.
C29_ReviewOnlyWithContext ==
    [][(GenerateStep /\ ~HasToolCalls(messages'[Len(messages')])) =>
        LET needs_review == \/ requires_workflow_graph_tools(context.user_prompt)
                            \/ get_tool_message_count(messages) > 0
        IN /\ needs_review <=> node' = NODE_REVIEW
           /\ ~needs_review <=> node' = "done"
           /\ ~needs_review => review_calls' = 0]_vars

\* C29, as stated: the same, and the text generated by a step that ends the
\* run directly is the final answer
C29_DirectAnswerIsGeneratedText ==
    [][(GenerateStep /\ ~HasToolCalls(messages'[Len(messages')])) =>
        LET needs_review == \/ requires_workflow_graph_tools(context.user_prompt)
                            \/ get_tool_message_count(messages) > 0
        IN /\ needs_review <=> node' = NODE_REVIEW
           /\ ~needs_review =>
                /\ node' = "done"
                /\ review_calls' = 0
                /\ achat'.events[Len(achat'.events) - 2].type = "answer.done"
                /\ achat'.events[Len(achat'.events) - 2].content
                       = strip(messages'[Len(messages')].content)]_vars

\* C30: a review step returns to generate exactly when its action is
\* call_tool, which only a consulted reviewer whose effective verdict is
\* need_more_tools gives; with the effective verdicts sufficient and
\* need_user_input the run ends with the actions answer and ask_user; a
\* review step entered with the counter at the ceiling ends the run with
\* action ask_user, the counter unchanged, no reviewer verdict, and the
\* user-guidance message with no missing information as the last message
\* and as the final answer.
C30_ReviewRouting ==
    [][ReviewStep =>
        LET consulted == review_result' # NoReview
            effective == EffectiveReview(review_result_model(review_result'),
                                         RemainingToolCalls,
                                         CandidateTools(context, messages, review_guidance))[1]
            at_ceiling == sufficiency_review_count >= MAX_ANSWER_SUFFICIENCY_REVIEW_ROUNDS
            last == messages'[Len(messages')]
        IN /\ node' \in {NODE_GENERATE, "done"}
           /\ node' = NODE_GENERATE <=> sufficiency_review_action' = "call_tool"
           /\ node' = NODE_GENERATE <=> (consulted /\ effective = "need_more_tools")
           /\ (consulted /\ effective = "sufficient") =>
                 node' = "done" /\ sufficiency_review_action' = "answer"
           /\ (consulted /\ effective = "need_user_input") =>
                 node' = "done" /\ sufficiency_review_action' = "ask_user"
           /\ consulted => ~at_ceiling
                            /\ sufficiency_review_count' = sufficiency_review_count + 1
           /\ at_ceiling =>
                 /\ ~consulted
                 /\ node' = "done"
                 /\ sufficiency_review_action' = "ask_user"
                 /\ sufficiency_review_count' = sufficiency_review_count
                 /\ last.type = "ai" /\ last.tool_calls = <<>> /\ ~last.pending
                 /\ last.content = build_need_user_input_message(<<>>, <<>>)
                 /\ achat'.events[Len(achat'.events) - 2].content = strip(last.content)]_vars

\* the run was ended by the review step that found the counter at the
\* ceiling: the guidance message is the last message and the final answer
C30_Witness ==
    /\ node = "done"
    /\ sufficiency_review_count = MAX_ANSWER_SUFFICIENCY_REVIEW_ROUNDS
    /\ review_calls = MAX_ANSWER_SUFFICIENCY_REVIEW_ROUNDS + 1
    /\ review_result = NoReview
    /\ sufficiency_review_action = "ask_user"
    /\ LastMessage.content = build_need_user_input_message(<<>>, <<>>)
    /\ FinalAnswer = strip(LastMessage.content)

(***************************************************************************)
(* The tool-use policy in the generate round.                              *)
(***************************************************************************)
\* the tool_choice the model of the coming generate round is bound with
BoundToolChoice ==
    normalize_tool_choice_for_model(context.enable_thinking,
        GenerateToolChoice(context, messages, force_tool_call))

\* a generate round entered with force_tool_call, i.e. the round after a
\* need_more_tools verdict
ForcedGenerateStep == GenerateStep /\ force_tool_call

C32_ResolveToolChoice ==
    fn_pc = "resolve_tool_choice" =>
        LET count == get_tool_message_count(fn_args.messages)
            streak == _no_new_evidence_streak(fn_args.messages)
            keyword == requires_workflow_graph_tools(fn_args.context.user_prompt)
        IN /\ count >= 3 => fn_result.value = "none"
           /\ (count < 3 /\ streak < 2) =>
                fn_result.value = IF count > 0 THEN "auto"
                                  ELSE IF keyword THEN "required"
                                  ELSE "auto"

\* the policy has answered "none" for a history over the budget although
\* the prompt holds a workflow-context keyword
C32_Witness ==
    /\ fn_pc = "resolve_tool_choice"
    /\ get_tool_message_count(fn_args.messages) >= 3
    /\ requires_workflow_graph_tools(fn_args.context.user_prompt)
    /\ fn_result.value = "none"

\* the i-th tool message brings no new evidence: it is empty after
\* normalization or equal, after normalization, to an earlier tool message
NoNewEvidenceAt(tms, i) ==
    \/ strip(tms[i].content) = <<>>
    \/ \E j \in 1..(i - 1) : strip(tms[j].content) = strip(tms[i].content)

\* the number of most recent consecutive tool messages without new evidence
TrailingNoNewEvidence(tms) ==
    CHOOSE k \in 0..Len(tms) :
        /\ \A i \in (Len(tms) - k + 1)..Len(tms) : NoNewEvidenceAt(tms, i)
        /\ k < Len(tms) => ~NoNewEvidenceAt(tms, Len(tms) - k)

\* C33: the no-new-evidence streak is the number of most recent consecutive
\* tool messages that are each empty or equal, after normalization, to an
\* earlier tool message, so that a tool message with new non-empty content
\* makes it 0; below the budget resolve_tool_choice returns "none" exactly
\* when that number is 2 or more.
C33_NoNewEvidenceStop ==
    LET tms == ToolMessagesOf(fn_args.messages)
    IN /\ fn_pc = "_no_new_evidence_streak" =>
            /\ fn_result.value = TrailingNoNewEvidence(tms)
            /\ (tms # <<>> /\ ~NoNewEvidenceAt(tms, Len(tms))) => fn_result.value = 0
       /\ (fn_pc = "resolve_tool_choice" /\ Len(tms) < 3) =>
            (fn_result.value = "none" <=> TrailingNoNewEvidence(tms) >= 2)

\* the streak was computed as 0 for a history whose last tool message is new
\* evidence after two tool messages without new evidence
C33_Witness ==
    LET tms == ToolMessagesOf(fn_args.messages)
    IN /\ fn_pc = "_no_new_evidence_streak"
       /\ Len(tms) = 4
       /\ NoNewEvidenceAt(tms, 2) /\ NoNewEvidenceAt(tms, 3)
       /\ ~NoNewEvidenceAt(tms, 4)
       /\ fn_result.value = 0

\* the names on the tool messages of a history
ToolResultNames(msgs) ==
    {msgs[i].name : i \in {k \in 1..Len(msgs) : msgs[k].type = "tool"}}

\* C34: select_tool_candidates returns tools of the given list, each once,
\* in descending relevance score with ties in registration order; the tools
\* returned are those whose name is on no tool message of the history, or,
\* when every tool has one, all tools; the result is empty only for an
\* empty tool list.
C34_SelectToolCandidates ==
    fn_pc = "select_tool_candidates" =>
        LET tools == fn_args.tools
            result == fn_result.value
            query_text == strip(fn_args.context.user_prompt \o <<" ">> \o fn_args.focus_text)
            score(t) == _score_tool_relevance(t, query_text)
            index(t) == CHOOSE i \in 1..Len(tools) : tools[i] = t
            unused == ToolNames(tools) \ ToolResultNames(fn_args.messages)
        IN /\ ToolNames(result) = IF unused # {} THEN unused ELSE ToolNames(tools)
           /\ Len(result) = Cardinality(ToolNames(result))
           /\ \A i \in 1..Len(result), j \in 1..Len(result) :
                i < j => \/ score(result[i]) > score(result[j])
                         \/ /\ score(result[i]) = score(result[j])
                            /\ index(result[i]) < index(result[j])
           /\ tools # <<>> => result # <<>>

\* every tool has a tool message, and the full list was returned with the
\* tool registered second ranked first
C34_Witness ==
    /\ fn_pc = "select_tool_candidates"
    /\ fn_args.tools = TOOLS
    /\ ToolNames(TOOLS) \subseteq ToolResultNames(fn_args.messages)
    /\ fn_result.value = <<TOOLS[2], TOOLS[1]>>

\* the guidance texts a need_more_tools verdict can produce
GuidanceTexts ==
    {build_review_guidance_message(r.missing_info, r.suggested_tool_name) :
        r \in {x \in ReviewResults : x.status = "need_more_tools"}}

\* a list of messages, or of history entries, holds a guidance text
HoldsGuidance(list) == \E i \in 1..Len(list) : list[i].content \in GuidanceTexts

\* C35: review_guidance is non-empty only between a review step with the
\* verdict need_more_tools and the generate round that follows it (or the
\* failure of that round); that round sends the messages of the state
\* followed by the guidance as a system message and leaves review_guidance
\* empty and force_tool_call false; any other generate round sends the
\* messages of the state alone, and nothing but a generate round sends
\* messages to the model; no step puts the guidance into the messages of
\* the state or into the session history.
C35_GuidanceOnlyInModelInput ==
    [][/\ review_guidance' # <<>> =>
            /\ node' \in {NODE_GENERATE, "failed"}
            /\ sufficiency_review_action' = "call_tool" /\ force_tool_call'
            /\ review_guidance' \in GuidanceTexts
            /\ review_guidance' # review_guidance => ReviewStep /\ node' = NODE_GENERATE
       /\ LET sent == IF review_guidance # <<>>
                      THEN messages \o <<SystemMessage(review_guidance, 0)>>
                      ELSE messages
          IN /\ GenerateStep =>
                  /\ llm_messages' = sent
                  /\ review_guidance' = <<>>
                  /\ force_tool_call' = FALSE
             /\ llm_messages' # llm_messages =>
                  node = NODE_GENERATE /\ llm_messages' = sent
       /\ ~HoldsGuidance(messages')
       /\ ~HoldsGuidance(store')]_vars

\* the round after a need_more_tools verdict has sent the guidance to the
\* model and has ended; the run has completed without the guidance in the
\* messages of the state or in the session history
C35_Witness ==
    /\ node = "done"
    /\ HoldsGuidance(llm_messages)
    /\ llm_messages[Len(llm_messages)].type = "system"
    /\ review_guidance = <<>>
    /\ ~force_tool_call
    /\ ~HoldsGuidance(messages)
    /\ Len(store) > Len(context.history0)
    /\ ~HoldsGuidance(store)

(***************************************************************************)
(* Properties of ensure_tool_call_ids.                                     *)
(***************************************************************************)
\* the raw calls ensure_tool_call_ids reads from a message
RawToolCalls(message) ==
    IF message.tool_calls # <<>> THEN message.tool_calls
    ELSE message.additional_kwargs_tool_calls
RawName(call) == IF call.function.present THEN call.function.name ELSE call.name
HasId(call) == call.id \notin {"", " "}

\* the returned calls are the named raw calls, in order, each with the id it
\* had or with a synthesized one
CallsNormalized(message, returned) ==
    LET raw == RawToolCalls(message)
        named == SelectSeq(raw, LAMBDA c : RawName(c) # "")
    IN /\ \A k \in 1..Len(returned.tool_calls) :
            HasId(returned.tool_calls[k]) /\ returned.tool_calls[k].name # ""
       /\ Len(returned.tool_calls) = Len(named)
       /\ \A k \in 1..Len(named) :
            /\ returned.tool_calls[k].name = RawName(named[k])
            /\ HasId(named[k]) => returned.tool_calls[k].id = named[k].id

\* C36, as stated: for every assistant message, the calls of the message
\* ensure_tool_call_ids returns each have an id and a tool name; they are
\* the raw calls that have a name, with the id kept or synthesized
C36_EveryCallHasIdAndName ==
    (fn_pc = "ensure_tool_call_ids" /\ fn_args.message.type = "ai") =>
        CallsNormalized(fn_args.message, fn_result.value)

\* the same for the messages of which at least one call has a name
C36_NamedCallsNormalized ==
    (/\ fn_pc = "ensure_tool_call_ids" /\ fn_args.message.type = "ai"
     /\ \E k \in 1..Len(RawToolCalls(fn_args.message)) :
            RawName(RawToolCalls(fn_args.message)[k]) # "") =>
        CallsNormalized(fn_args.message, fn_result.value)

(***************************************************************************)
(* Properties of split_response_content.                                   *)
(***************************************************************************)
HasToken(t, c) == \E i \in 1..Len(t) : t[i] = c
CountToken(t, c) == Cardinality({i \in 1..Len(t) : t[i] = c})

\* how split_response_content divides a raw text, without the statement
\* about the delimiters left in the answer
SplitsAsDescribed(text, answer, reasoning) ==
    LET spans == think_spans(text)
        first_close == find(text, CLOSE, 1)
        first_open == find(text, OPEN, 1)
    IN /\ (HasToken(text, OPEN) /\ HasToken(text, CLOSE)) =>
            /\ reasoning = JoinLines(StripEach(spans))
            /\ answer = strip(RemoveToken(remove_think_spans(text), {OPEN, CLOSE}))
       /\ (~HasToken(text, OPEN) /\ HasToken(text, CLOSE)) =>
            /\ reasoning = strip(SubSeq(text, 1, first_close - 1))
            /\ answer = strip(SubSeq(text, first_close + 1, Len(text)))
       /\ (HasToken(text, OPEN) /\ ~HasToken(text, CLOSE)) =>
            /\ answer = strip(SubSeq(text, 1, first_open - 1))
            /\ reasoning = strip(SubSeq(text, first_open + 1, Len(text)))
       /\ (~HasToken(text, OPEN) /\ ~HasToken(text, CLOSE)) =>
            answer = text /\ reasoning = <<>>

\* C37, as stated: split_response_content divides every raw text as
\* described (wrapped spans, or the text before a lone close marker, or the
\* text after a lone open marker, become reasoning), and the visible answer
\* it returns holds no delimiter
C37_AnswerWithoutDelimiters ==
    fn_pc = "split_response_content" =>
        /\ SplitsAsDescribed(fn_args.content, fn_result.value[1], fn_result.value[2])
        /\ ~HasToken(fn_result.value[1], OPEN)
        /\ ~HasToken(fn_result.value[1], CLOSE)

\* the same, the delimiters being absent from the answer of every text but
\* one with two or more close markers and no open marker
C37_SplitsAsDescribed ==
    fn_pc = "split_response_content" =>
        /\ SplitsAsDescribed(fn_args.content, fn_result.value[1], fn_result.value[2])
        /\ ~HasToken(fn_result.value[1], OPEN)
        /\ (HasToken(fn_args.content, OPEN) \/ CountToken(fn_args.content, CLOSE) < 2) =>
              ~HasToken(fn_result.value[1], CLOSE)

(***************************************************************************)
(* Properties of the answer stream around a rejected candidate.            *)
(***************************************************************************)
\* the index of the last answer.reset event of a stream, 0 if none
LastReset(events) ==
    IF \E i \in 1..Len(events) : events[i].type = "answer.reset"
    THEN CHOOSE i \in 1..Len(events) :
            /\ events[i].type = "answer.reset"
            /\ \A j \in (i + 1)..Len(events) : events[j].type # "answer.reset"
    ELSE 0

\* the texts of the answer.delta events after position from, joined
RECURSIVE DeltasAfter(_, _)
DeltasAfter(events, from) ==
    IF from >= Len(events) THEN <<>>
    ELSE (IF events[from + 1].type = "answer.delta" THEN events[from + 1].content ELSE <<>>)
         \o DeltasAfter(events, from + 1)

\* C38: a review step that rejects the candidate (it returns to generate,
\* or ends the run with ask_user for a need_user_input verdict, a failed
\* reviewer or the ceiling) emits an answer.reset event before any other
\* answer event of the step, and clears the collected answer; the content
\* of answer.done is the trimmed text of the answer.delta events after the
\* last answer.reset alone.
C38_ResetBeforeLaterAnswer ==
    [][/\ (ReviewStep /\ sufficiency_review_action' \in {"call_tool", "ask_user"}) =>
            LET old == Len(achat.events)
                added == SubSeq(achat'.events, old + 1, Len(achat'.events))
                reset == LastReset(added)
            IN /\ SubSeq(achat'.events, 1, old) = achat.events
               /\ reset # 0
               /\ \A i \in 1..(reset - 1) :
                     added[i].type \notin {"answer.delta", "answer.done", "answer.reset"}
               /\ node' = NODE_GENERATE => achat'.answer_parts = <<>>
       /\ (node' = "done" /\ node # "done") =>
            LET events == achat'.events
            IN /\ events[Len(events) - 2].type = "answer.done"
               /\ events[Len(events) - 2].content
                     = strip(DeltasAfter(events, LastReset(events)))]_vars

\* a run has ended with ask_user after its candidate, streamed as deltas,
\* was rejected: the deltas before the reset are not in the final answer
C38_Witness ==
    /\ node = "done"
    /\ sufficiency_review_action = "ask_user"
    /\ LastReset(achat.events) # 0
    /\ \E i \in 1..(LastReset(achat.events) - 1) :
          achat.events[i].type = "answer.delta" /\ strip(achat.events[i].content) # <<>>
    /\ FinalAnswer = strip(DeltasAfter(achat.events, LastReset(achat.events)))
    /\ FinalAnswer = strip(LastMessage.content)

(***************************************************************************)
(* Properties of the tool set bound in a generate round.                   *)
(***************************************************************************)
\* no assistant message requests one tool twice
OncePerMessage(msgs) ==
    \A i \in 1..Len(msgs) :
        \A j, k \in 1..Len(msgs[i].tool_calls) :
            msgs[i].tool_calls[j] = msgs[i].tool_calls[k] => j = k

\* no tool name is on two tool messages
NoToolAnsweredTwice(msgs) ==
    \A i, j \in 1..Len(msgs) :
        (msgs[i].type = "tool" /\ msgs[j].type = "tool" /\ msgs[i].name = msgs[j].name)
            => i = j

\* C39: the tools a generate round binds to the model name no tool that is
\* on a tool message of the history; when every tool is on one, so that
\* select_tool_candidates falls back to the full ranked list, no tool is
\* bound and the round requests none; the model requests bound tools only,
\* so that in a run in which no message requests a tool twice no tool name
\* gets two tool messages.
C39_UsedToolsNotBound ==
    [][/\ GenerateStep =>
            LET bound == CandidateTools(context, messages, review_guidance)
                generated == messages'[Len(messages')]
            IN /\ ToolNames(bound) \cap ToolResultNames(messages) = {}
               /\ ToolNames(generated.tool_calls) \subseteq ToolNames(bound)
               /\ ToolNames(TOOLS) \subseteq ToolResultNames(messages) =>
                    /\ select_tool_candidates(context, messages, TOOLS, review_guidance) # <<>>
                    /\ bound = <<>>
                    /\ ~HasToolCalls(generated)
       /\ OncePerMessage(messages') => NoToolAnsweredTwice(messages')]_vars

\* every tool has been used once, below the budget and with new evidence,
\* and the generate round that followed was bound with no tool
C39_Witness ==
    /\ node = NODE_REVIEW
    /\ ToolNames(TOOLS) \subseteq ToolResultNames(messages)
    /\ OncePerMessage(messages)
    /\ get_tool_message_count(messages) < MAX_TOOL_CALLS_PER_QUESTION
    /\ resolve_tool_choice(context, messages) = "auto"
    /\ ~HasToolCalls(LastMessage)

(***************************************************************************)
(* Properties of ADD_EDGE and of the edges of a published graph.           *)
(***************************************************************************)
\* the edges of a graph whose source or target is no node of the graph
DanglingEdges(g) ==
    {i \in 1..Len(g.edges) : \/ g.edges[i][1] \notin SeqToSet(node_ids(g))
                             \/ g.edges[i][2] \notin SeqToSet(node_ids(g))}

\* the loop has taken an ADD_EDGE operation with a source and a target
AddEdgeStep ==
    /\ gpc = "loop"
    /\ op_index' = op_index + 1
    /\ operations'[Len(operations')].op_type = "ADD_EDGE"
    /\ operations'[Len(operations')].params.source # ""
    /\ operations'[Len(operations')].params.target # ""

\* C40: an ADD_EDGE operation with a source and a target is applied without
\* an error, whether or not they are nodes of the working graph: the edge is
\* in the index afterwards, applied_ops has grown by one and errors is
\* unchanged; validate_graph reports one "Edge invalid" error for every
\* edge of the result whose source or target is not a node of it; the
\* builder flow publishes no graph with such an edge.
C40_DanglingEdgeNeverPublished ==
    [][/\ AddEdgeStep =>
            LET p == operations'[Len(operations')].params
                e == Edge(p.source, p.target, p.source_handle, p.target_handle)
            IN /\ DictHas(edges', e)
               /\ applied_ops' = applied_ops + 1
               /\ errors' = errors
               /\ nodes' = nodes
       /\ gpc' = "done" =>
            LET g == ResultGraph'
                reported == SelectSeq(validate_graph(g), LAMBDA x : x.kind = "Edge invalid")
                dangling == SelectSeq(g.edges,
                                LAMBDA x : \/ x[1] \notin SeqToSet(node_ids(g))
                                           \/ x[2] \notin SeqToSet(node_ids(g)))
            IN /\ Len(reported) = Len(dangling)
               /\ \A i \in 1..Len(dangling) :
                     reported[i].source = dangling[i][1] /\ reported[i].target = dangling[i][2]
       /\ Published' => (gpc' = "done" /\ DanglingEdges(ResultGraph') = {})]_vars

\* an ADD_EDGE to a node the graph does not have was applied without an
\* error, and the flow has ended with an error event and nothing published
C40_Witness ==
    /\ bpc = "done"
    /\ gpc = "done"
    /\ errors = <<>>
    /\ applied_ops = 1
    /\ operations[1].op_type = "ADD_EDGE"
    /\ DanglingEdges(ResultGraph) # {}
    /\ DanglingEdges(graph_before) = {}
    /\ Emitted("error")
    /\ ~Published

====
